---- MODULE Spec2Model ----
(***************************************************************************)
(* rsc_gen_terrain.js: the landscape decoder (loadSector), the coordinate  *)
(* transform, the material lookup tables, the structure synthesizer        *)
(* (processSector: buildFloors, buildWalls, buildRoofs) and the batch      *)
(* driver (main), as a state machine.                                      *)
(*                                                                         *)
(* A block position is <<x, y, z>>.  An elevation is kept in units of      *)
(* 1/32 block, because the script computes 5 + groundElevation / 32 as a   *)
(* floating point number and only the host call withY(int) truncates it.   *)
(***************************************************************************)
EXTENDS Integers, Sequences, FiniteSets, TLC

(***************************************************************************)
(* Program constants.                                                      *)
(***************************************************************************)
SEA_LEVEL == 63
BEDROCK_LEVEL == 60
WALL_HEIGHT == 5
ROOF_HEIGHT == WALL_HEIGHT
NUM_LAYERS == 3
MIN_SECTOR_X == 48
MIN_SECTOR_Y == 37
MAX_SECTOR_X == 68
MAX_SECTOR_Y == 57
NUM_SECTORS_X == MAX_SECTOR_X - MIN_SECTOR_X
\* for (var height = 0; height < 30; height++) in the clean loop
CLEAN_HEIGHT == 30
\* wall codes from 48000 on are object ids, from 12000 on the other diagonal
OBJECT_BASE == 48000
DIAGONAL_BASE == 12000
\* tile.mc.elevation = 5 + groundElevation / 32
ELEVATION_BASE == 5
ELEVATION_DIV == 32

(***************************************************************************)
(* Bounds of the model.  The script's SECTOR_SIZE is 48; the model keeps   *)
(* every formula in terms of SECTOR_SIZE and runs it on a smaller grid.    *)
(***************************************************************************)
SECTOR_SIZE == 3

Layers == 0 .. (NUM_LAYERS - 1)
TileIdx == 0 .. (SECTOR_SIZE - 1)

NullBlock == "null"

(***************************************************************************)
(* Coordinate transform.                                                   *)
(***************************************************************************)
getContainingSectorCoords(blockPos) ==
    LET sectorX == blockPos[1] \div SECTOR_SIZE
        sectorY == blockPos[3] \div SECTOR_SIZE
    IN  <<(NUM_SECTORS_X - sectorX) + MIN_SECTOR_X, 0, sectorY + MIN_SECTOR_Y>>

getSectorId(layer, sectorX, sectorY) ==
    "h" \o ToString(layer) \o "x" \o ToString(sectorX) \o "y" \o ToString(sectorY)

\* mutant: the x axis is not flipped
getMinBlockPosForSector_NoFlip(sectorX, sectorY) ==
    LET mcSectorX == sectorX - MIN_SECTOR_X
        mcSectorZ == sectorY - MIN_SECTOR_Y
    IN  <<mcSectorX * SECTOR_SIZE, BEDROCK_LEVEL, mcSectorZ * SECTOR_SIZE>>

getMinBlockPosForSector(sectorX, sectorY) ==
    LET mcSectorX == -((sectorX - MIN_SECTOR_X) - NUM_SECTORS_X)
        mcSectorZ == sectorY - MIN_SECTOR_Y
    IN  <<mcSectorX * SECTOR_SIZE, BEDROCK_LEVEL, mcSectorZ * SECTOR_SIZE>>

\* mutant: the x axis of the tiles is not inverted
getBlockPosForTile_NoFlip(sectorMinBlockPos, tileX, tileY) ==
    <<sectorMinBlockPos[1] + tileX,
      sectorMinBlockPos[2],
      sectorMinBlockPos[3] + tileY>>

getBlockPosForTile(sectorMinBlockPos, tileX, tileY) ==
    <<sectorMinBlockPos[1] + (SECTOR_SIZE - tileX - 1),
      sectorMinBlockPos[2],
      sectorMinBlockPos[3] + tileY>>

\* BlockVector3.withY and BlockVector3.add of the host
withY(pos, y) == <<pos[1], y, pos[3]>>
add(pos, dx, dy, dz) == <<pos[1] + dx, pos[2] + dy, pos[3] + dz>>

\* the Y passed to withY for BEDROCK_LEVEL + elevation + i: the double is
\* truncated to an int by the call (all values here are positive)
levelY(elevation, i) ==
    (BEDROCK_LEVEL * ELEVATION_DIV + elevation + i * ELEVATION_DIV) \div ELEVATION_DIV

(***************************************************************************)
(* Byte conversions of the decoder.                                        *)
(***************************************************************************)
toSigned(val) == IF val > 127 THEN val - 256 ELSE val

toUnsigned(val) == IF val < 0 THEN val + 256 ELSE val

\* mutant: the three low bytes keep their sign
getInt_SignedLowBytes(b1, b2, b3, b4) ==
    b1 * 16777216 + (b2 * 256 + b3) * 256 + b4

\* ByteBuffer.getInt(): big-endian two's complement of four bytes; the
\* first byte carries the sign, the others count as 0..255
getInt(b1, b2, b3, b4) ==
    b1 * 16777216
    + ((IF b2 < 0 THEN b2 + 256 ELSE b2) * 256
       + (IF b3 < 0 THEN b3 + 256 ELSE b3)) * 256
    + (IF b4 < 0 THEN b4 + 256 ELSE b4)

(***************************************************************************)
(* Lookup tables.                                                          *)
(***************************************************************************)
\* mutant: the first bound is inclusive
getBlockTypeFromPalette_InclusiveBound(paletteIndex) ==
    IF paletteIndex <= 16 THEN "stone"
    ELSE IF paletteIndex < 48 THEN "lime_terracotta"
    ELSE IF paletteIndex < 80 THEN "grass_block"
    ELSE IF paletteIndex < 96 THEN "green_concrete_powder"
    ELSE IF paletteIndex < 104 THEN "lime_terracotta"
    ELSE IF paletteIndex < 144 THEN "dirt_path"
    ELSE IF paletteIndex < 164 THEN "packed_mud"
    ELSE IF paletteIndex < 176 THEN "dirt"
    ELSE IF paletteIndex < 208 THEN "coarse_dirt"
    ELSE IF paletteIndex < 216 THEN "podzol"
    ELSE "grass_block"

getBlockTypeFromPalette(paletteIndex) ==
    IF paletteIndex < 16 THEN "stone"
    ELSE IF paletteIndex < 48 THEN "lime_terracotta"
    ELSE IF paletteIndex < 80 THEN "grass_block"
    ELSE IF paletteIndex < 96 THEN "green_concrete_powder"
    ELSE IF paletteIndex < 104 THEN "lime_terracotta"
    ELSE IF paletteIndex < 144 THEN "dirt_path"
    ELSE IF paletteIndex < 164 THEN "packed_mud"
    ELSE IF paletteIndex < 176 THEN "dirt"
    ELSE IF paletteIndex < 208 THEN "coarse_dirt"
    ELSE IF paletteIndex < 216 THEN "podzol"
    ELSE "grass_block"

\* tile.mc.overlaySettings of a tile without overlay (the field is not set)
NoOverlaySettings ==
    [defined |-> FALSE, block |-> NullBlock, indoors |-> FALSE,
     replaceGround |-> FALSE, isVoid |-> FALSE, overrideElevation |-> 0]

OverlayBlock(groundOverlay) ==
    CASE groundOverlay = 1 -> "gravel"
      [] groundOverlay = 2 -> "water"
      [] groundOverlay = 3 -> "spruce_planks"
      [] groundOverlay = 4 -> "dark_oak_planks"
      [] groundOverlay = 5 -> "smooth_stone"
      [] groundOverlay = 6 -> "red_wool"
      [] groundOverlay = 7 -> "muddy_mangrove_roots"
      [] groundOverlay = 8 -> "black_concrete"
      [] groundOverlay = 9 -> "andesite"
      [] groundOverlay = 11 -> "lava"
      [] groundOverlay = 12 -> "spruce_planks"
      [] groundOverlay = 13 -> "cyan_wool"
      [] groundOverlay = 14 -> "gray_glazed_terracotta"
      [] groundOverlay = 15 -> "purple_wool"
      [] groundOverlay = 16 -> "black_concrete"
      [] groundOverlay = 17 -> "chiseled_quartz_block"
      [] groundOverlay = 18 -> "spruce_planks"
      [] groundOverlay = 19 -> "gravel"
      [] groundOverlay = 20 -> "oak_log"
      [] groundOverlay = 21 -> "oak_log"
      [] groundOverlay = 23 -> "brown_wool"
      [] groundOverlay = 24 -> "air"
      [] groundOverlay = 250 -> "black_concrete"
      [] OTHER -> "cyan_wool"

getOverlaySettings(groundOverlay) ==
    [defined |-> TRUE,
     block |-> OverlayBlock(groundOverlay),
     indoors |-> groundOverlay \in {3, 6, 7, 13, 14, 15},
     replaceGround |-> groundOverlay # 2,
     isVoid |-> groundOverlay \in {8, 16},
     overrideElevation |->
         IF groundOverlay = 2 THEN (SEA_LEVEL - BEDROCK_LEVEL) * ELEVATION_DIV ELSE 0]

\* mutant: void overlays are placed on every layer
isOverlayPermitted_VoidAllowed(layer, overlaySettings) ==
    IF ~overlaySettings.defined THEN FALSE
    ELSE TRUE

isOverlayPermitted(layer, overlaySettings) ==
    IF ~overlaySettings.defined THEN FALSE
    ELSE IF layer > 0 /\ overlaySettings.isVoid THEN FALSE
    ELSE TRUE

\* mutant: a tile without overlay is never indoors
isTileIndoors_NoInheritance(overlaySettings, groundOverlaySettings) ==
    IF ~overlaySettings.defined
    THEN FALSE
    ELSE overlaySettings.indoors

isTileIndoors(overlaySettings, groundOverlaySettings) ==
    IF ~overlaySettings.defined
    THEN groundOverlaySettings.defined /\ groundOverlaySettings.indoors
    ELSE overlaySettings.indoors

(***************************************************************************)
(* Wall codes.                                                             *)
(***************************************************************************)
\* a || b || c of JavaScript: the first operand that is not 0
getWallType(tile) ==
    IF tile.topBorderWall # 0 THEN tile.topBorderWall
    ELSE IF tile.rightBorderWall # 0 THEN tile.rightBorderWall
    ELSE tile.diagonalWalls

\* mutant: object references count as walls
isWall_NoUpperBound(wallType) == wallType > 0

isWall(wallType) == wallType > 0 /\ wallType < OBJECT_BASE

normalizeWallType(wallType) ==
    IF wallType >= OBJECT_BASE THEN wallType - OBJECT_BASE
    ELSE IF wallType >= DIAGONAL_BASE THEN wallType - DIAGONAL_BASE
    ELSE wallType

getWindowProperties(facing) ==
    IF facing = "east" \/ facing = "west" THEN "[north=true,south=true]"
    ELSE "[east=true,west=true]"

DoorwayTypes ==
    {2, 3, 9, 23, 24, 31, 33, 37, 38, 39, 40, 41, 44, 45, 49, 50, 51, 55, 61,
     67, 69, 75, 76, 78, 79, 80, 81, 82, 83, 94, 95, 97, 98, 99, 100, 101, 110,
     111, 113, 114, 115, 116, 121, 123, 124, 139, 142, 146, 147, 151, 153, 162,
     166, 178, 179, 195, 196, 197, 198, 199, 206}

\* the settings every branch starts from
DefaultWallSettings ==
    [block |-> "red_wool", height |-> WALL_HEIGHT, doorBlock |-> NullBlock,
     windowBlock |-> NullBlock, cornerBlock |-> NullBlock,
     ensureAboveGround |-> FALSE]

setDoorway(facing, wallSettings) ==
    [wallSettings EXCEPT !.block = "glass",
                         !.doorBlock = "oak_door[facing=" \o facing \o "]",
                         !.ensureAboveGround = TRUE]

\* wallSettings.block of the branches that are not doorways
WallBlock(wallType) ==
    CASE wallType \in {1, 4, 7, 8, 14, 35, 77, 117, 164, 165} -> "stone_bricks"
      [] wallType \in {5, 128} -> "jungle_fence"
      [] wallType \in {6, 182, 183, 184, 185, 186, 187, 194, 202} -> "iron_bars"
      [] wallType \in {11, 63} -> "stone_brick_wall"
      [] wallType \in {15, 16} -> "mushroom_stem"
      [] wallType \in {17, 25, 102, 148, 149, 150, 177, 200} -> "air"
      [] wallType = 19 -> "mossy_stone_bricks"
      [] wallType = 42 -> "cracked_stone_bricks"
      [] wallType = 43 -> "granite"
      [] wallType \in {57, 120, 127, 145} -> "spruce_planks"
      [] wallType = 87 -> "barrier"
      [] wallType = 176 -> "smooth_sandstone"
      [] OTHER -> "red_wool"

\* mutant: the granite wall (43) is of random height too
WallHeightOf_GraniteRandom(wallType, random) ==
    CASE wallType \in {5, 6, 63, 182, 183, 184, 185, 186, 187, 194, 202} -> 2
      [] wallType \in {11, 128} -> 1
      [] wallType \in {42, 43} -> random
      [] OTHER -> WALL_HEIGHT

\* random is the integer part of Math.random() * WALL_HEIGHT, which is all
\* the loop i <= endY of buildWall sees of the height of a broken wall (42)
WallHeightOf(wallType, random) ==
    CASE wallType \in {5, 6, 63, 182, 183, 184, 185, 186, 187, 194, 202} -> 2
      [] wallType \in {11, 128} -> 1
      [] wallType = 42 -> random
      [] OTHER -> WALL_HEIGHT

WallWindowBlock(tile, wallType, facing) ==
    CASE wallType \in {4, 7, 14} ->
            IF tile.diagonalWalls # 0 THEN "glass"
            ELSE "glass_pane" \o getWindowProperties(facing)
      [] wallType = 16 -> "jungle_trapdoor[open=true,facing=" \o facing \o "]"
      [] wallType = 35 -> "air"
      [] wallType = 127 -> "glass_pane" \o getWindowProperties(facing)
      [] wallType = 145 -> "oak_trapdoor[open=true,facing=" \o facing \o "]"
      [] OTHER -> NullBlock

getWallSettings(tile, wallType, facing, random) ==
    IF wallType \in DoorwayTypes
    THEN setDoorway(facing, DefaultWallSettings)
    ELSE [block |-> WallBlock(wallType),
          height |-> WallHeightOf(wallType, random),
          doorBlock |-> NullBlock,
          windowBlock |-> WallWindowBlock(tile, wallType, facing),
          cornerBlock |-> IF wallType \in {15, 16} THEN "stripped_jungle_log"
                          ELSE NullBlock,
          ensureAboveGround |->
              wallType \in {5, 6, 11, 17, 25, 57, 63, 87, 102, 120, 128, 148,
                            149, 150, 177, 182, 183, 184, 185, 186, 187, 194,
                            200, 202}]

(***************************************************************************)
(* Tiles, sectors and the per-tile annotation (tile.mc).                   *)
(***************************************************************************)
\* sector[layer] of a layer the archive has no entry for: never assigned
Undefined == <<>>

\* tile.mc before buildFloors has assigned it
\* writes counts the assignments to each field of tile.mc
NoMc ==
    [set |-> FALSE, overlaySettings |-> NoOverlaySettings, elevation |-> 0,
     indoors |-> FALSE,
     writes |-> [overlaySettings |-> 0, elevation |-> 0, indoors |-> 0]]

NoMcs == [layer \in Layers |-> [x \in TileIdx |-> [y \in TileIdx |-> NoMc]]]

InGrid(x, y) == x \in TileIdx /\ y \in TileIdx

\* one call of blocks.setBlock: the position, the block, the function that
\* made the call and the call site
Placement(pos, block, by, kind) ==
    [pos |-> pos, block |-> block, by |-> by, kind |-> kind]

\* the calls of one iteration, with the layer and the tile of the iteration
\* (layer -1: the clean loop, which has no layer)
Tagged(out, layer, tileX, tileY) ==
    [k \in 1 .. Len(out) |->
        [pos |-> out[k].pos, block |-> out[k].block, by |-> out[k].by,
         kind |-> out[k].kind, layer |-> layer, tileX |-> tileX, tileY |-> tileY]]

(***************************************************************************)
(* buildFloors, for one tile: the layers from `layer` on.  The result is   *)
(* the annotations, the placements in call order, and whether the call     *)
(* ended in the TypeError of reading a tile of a layer that is undefined.  *)
(***************************************************************************)
\* mutant: every upper layer is one storey above the ground
UpperElevation_OneStorey(groundElevation, layer) ==
    groundElevation + WALL_HEIGHT * ELEVATION_DIV

\* tile.mc.elevation = groundElevation + layer * WALL_HEIGHT on the layers
\* above the ground
UpperElevation(groundElevation, layer) ==
    groundElevation + layer * WALL_HEIGHT * ELEVATION_DIV

\* mutant: the raw elevation counts downwards
FloorLayerMc_InvertedScale(sec, mcs, layer, x, y) ==
    LET tile == sec[layer][x][y]
        overlaySettings ==
            IF tile.groundOverlay # 0 THEN getOverlaySettings(tile.groundOverlay)
            ELSE NoOverlaySettings
        elevation ==
            IF layer = 0
            THEN IF overlaySettings.defined /\ overlaySettings.overrideElevation # 0
                 THEN overlaySettings.overrideElevation
                 ELSE (ELEVATION_BASE + 8) * ELEVATION_DIV - tile.groundElevation
            ELSE UpperElevation(mcs[0][x][y].elevation, layer)
    IN  [set |-> TRUE, overlaySettings |-> overlaySettings,
         elevation |-> elevation, indoors |-> FALSE,
         writes |-> [overlaySettings |-> IF tile.groundOverlay # 0 THEN 1 ELSE 0,
                     elevation |->
                         IF layer = 0 /\ overlaySettings.defined
                            /\ overlaySettings.overrideElevation # 0
                         THEN 2 ELSE 1,
                     indoors |-> 0]]

FloorLayerMc(sec, mcs, layer, x, y) ==
    LET tile == sec[layer][x][y]
        overlaySettings ==
            IF tile.groundOverlay # 0 THEN getOverlaySettings(tile.groundOverlay)
            ELSE NoOverlaySettings
        elevation ==
            IF layer = 0
            THEN IF overlaySettings.defined /\ overlaySettings.overrideElevation # 0
                 THEN overlaySettings.overrideElevation
                 ELSE ELEVATION_BASE * ELEVATION_DIV + tile.groundElevation
            ELSE UpperElevation(mcs[0][x][y].elevation, layer)
    IN  [set |-> TRUE, overlaySettings |-> overlaySettings,
         elevation |-> elevation, indoors |-> FALSE,
         writes |-> [overlaySettings |-> IF tile.groundOverlay # 0 THEN 1 ELSE 0,
                     elevation |->
                         IF layer = 0 /\ overlaySettings.defined
                            /\ overlaySettings.overrideElevation # 0
                         THEN 2 ELSE 1,
                     indoors |-> 0]]

\* mutant: the support loop runs up to the elevation itself
FloorLayerPlacements_SupportToElevation(sec, tmc, blockPos, layer, x, y) ==
    LET tile == sec[layer][x][y]
        blockType == getBlockTypeFromPalette(tile.groundTexture)
        supportType == IF blockType = "dirt_path" THEN "dirt" ELSE blockType
        \* for (var i = 1; i <= tile.mc.elevation; i++)
        lastSupport == tmc.elevation \div ELEVATION_DIV
        ground ==
            IF layer = 0
            THEN <<Placement(blockPos, "bedrock", "buildFloors", "bedrock")>>
                 \o [i \in 1 .. lastSupport |->
                        Placement(withY(blockPos, BEDROCK_LEVEL + i), supportType,
                                  "buildFloors", "support")]
                 \o <<Placement(withY(blockPos, levelY(tmc.elevation, 0)), blockType,
                                "buildFloors", "ground")>>
            ELSE <<>>
        overlay ==
            IF isOverlayPermitted(layer, tmc.overlaySettings)
            THEN <<Placement(withY(blockPos,
                                   levelY(tmc.elevation,
                                          IF tmc.overlaySettings.replaceGround
                                          THEN 0 ELSE 1)),
                             tmc.overlaySettings.block, "buildFloors", "overlay")>>
            ELSE <<>>
    IN  ground \o overlay

FloorLayerPlacements(sec, tmc, blockPos, layer, x, y) ==
    LET tile == sec[layer][x][y]
        blockType == getBlockTypeFromPalette(tile.groundTexture)
        supportType == IF blockType = "dirt_path" THEN "dirt" ELSE blockType
        \* for (var i = 1; i < tile.mc.elevation; i++)
        lastSupport == (tmc.elevation - 1) \div ELEVATION_DIV
        ground ==
            IF layer = 0
            THEN <<Placement(blockPos, "bedrock", "buildFloors", "bedrock")>>
                 \o [i \in 1 .. lastSupport |->
                        Placement(withY(blockPos, BEDROCK_LEVEL + i), supportType,
                                  "buildFloors", "support")]
                 \o <<Placement(withY(blockPos, levelY(tmc.elevation, 0)), blockType,
                                "buildFloors", "ground")>>
            ELSE <<>>
        overlay ==
            IF isOverlayPermitted(layer, tmc.overlaySettings)
            THEN <<Placement(withY(blockPos,
                                   levelY(tmc.elevation,
                                          IF tmc.overlaySettings.replaceGround
                                          THEN 0 ELSE 1)),
                             tmc.overlaySettings.block, "buildFloors", "overlay")>>
            ELSE <<>>
    IN  ground \o overlay

RECURSIVE buildFloorsFrom(_, _, _, _, _, _)
buildFloorsFrom(layer, sec, mcs, sectorMinBlockPos, tileX, tileY) ==
    IF layer >= NUM_LAYERS THEN [mc |-> mcs, out |-> <<>>, thrown |-> FALSE]
    ELSE IF sec[layer] = Undefined THEN [mc |-> mcs, out |-> <<>>, thrown |-> TRUE]
    ELSE LET blockPos == getBlockPosForTile(sectorMinBlockPos, tileX, tileY)
             tmc == FloorLayerMc(sec, mcs, layer, tileX, tileY)
             mcs1 == [mcs EXCEPT ![layer][tileX][tileY] = tmc]
             here == Tagged(FloorLayerPlacements(sec, tmc, blockPos, layer,
                                                 tileX, tileY),
                            layer, tileX, tileY)
             rest == buildFloorsFrom(layer + 1, sec, mcs1, sectorMinBlockPos,
                                     tileX, tileY)
         IN  [mc |-> rest.mc, out |-> here \o rest.out, thrown |-> rest.thrown]

buildFloors(sec, mcs, sectorMinBlockPos, tileX, tileY) ==
    buildFloorsFrom(0, sec, mcs, sectorMinBlockPos, tileX, tileY)

(***************************************************************************)
(* Walls.                                                                  *)
(***************************************************************************)
\* the 8 surrounding tiles in the order the function tries them
NeighbourOffsets ==
    << <<0, -1>>, <<-1, -1>>, <<-1, 0>>, <<-1, 1>>,
       <<0, 1>>, <<1, 1>>, <<1, 0>>, <<1, -1>> >>

\* context.getBlock of a block id built with facing = null: the host has
\* no such property value, so the call throws inside the try
NeighbourLookupThrows(tile) ==
    LET wallType == normalizeWallType(getWallType(tile))
    IN  /\ wallType \in {16, 145}
        /\ ~(wallType \in DoorwayTypes)

\* one try block: the material the neighbour at offset d yields, or NullBlock
\* when the try block falls through (no wall, a doorway, or an exception)
NeighbourBlockAt(sec, layer, tileX, tileY, d) ==
    LET nx == tileX + d[1]
        ny == tileY + d[2]
    IN  IF ~InGrid(nx, ny) THEN NullBlock
        ELSE LET tile == sec[layer][nx][ny]
                 wallType == getWallType(tile)
             IN  IF ~isWall(wallType) THEN NullBlock
                 ELSE IF NeighbourLookupThrows(tile) THEN NullBlock
                 ELSE LET wallSettings ==
                              getWallSettings(tile, normalizeWallType(wallType),
                                              "null", 0)
                      IN  IF wallSettings.block # NullBlock
                             /\ wallSettings.doorBlock = NullBlock
                          THEN wallSettings.block
                          ELSE NullBlock

RECURSIVE NeighbourFrom(_, _, _, _, _)
NeighbourFrom(k, sec, layer, tileX, tileY) ==
    IF k > Len(NeighbourOffsets) THEN NullBlock
    ELSE LET b == NeighbourBlockAt(sec, layer, tileX, tileY, NeighbourOffsets[k])
         IN  IF b # NullBlock THEN b
             ELSE NeighbourFrom(k + 1, sec, layer, tileX, tileY)

getNeighbouringWallBlock(sec, layer, tileX, tileY) ==
    NeighbourFrom(1, sec, layer, tileX, tileY)

Facings == {"north", "south", "east", "west", "null"}

\* wallSettings.doorBlock.replace("]", ",half=...]")
DoorHalf(doorBlock, half) ==
    LET facing == CHOOSE f \in Facings : doorBlock = "oak_door[facing=" \o f \o "]"
    IN  "oak_door[facing=" \o facing \o ",half=" \o half \o "]"

\* the voxel of a wall column at relative height i
WallVoxel(sec, tileX, tileY, layer, wallPos, elevation, wallSettings, i) ==
    LET pos == withY(wallPos, levelY(elevation, i))
    IN  IF wallSettings.doorBlock # NullBlock
        THEN IF i = 1
             THEN Placement(pos, DoorHalf(wallSettings.doorBlock, "lower"),
                            "buildWalls", "door")
             ELSE IF i = 2
             THEN Placement(pos, DoorHalf(wallSettings.doorBlock, "upper"),
                            "buildWalls", "door")
             \* both branches of if (wallBlock) place wallBlock
             ELSE Placement(pos, getNeighbouringWallBlock(sec, layer, tileX, tileY),
                            "buildWalls", "blend")
        ELSE IF wallSettings.windowBlock # NullBlock /\ i > 1
                /\ i < wallSettings.height - 1
        THEN Placement(pos, wallSettings.windowBlock, "buildWalls", "window")
        ELSE IF wallSettings.cornerBlock # NullBlock /\ i % 4 = 0
        THEN Placement(pos, wallSettings.cornerBlock, "buildWalls", "corner")
        ELSE Placement(pos, wallSettings.block, "buildWalls", "wall")

\* mutant: a wall on layer 0 starts at the floor like the walls above
WallStartY_NeverUnderground(layer, wallSettings) ==
    IF wallSettings.ensureAboveGround THEN 1
    ELSE 0

WallStartY(layer, wallSettings) ==
    IF wallSettings.ensureAboveGround THEN 1
    ELSE IF layer = 0 THEN -5
    ELSE 0

buildWall(sec, tileX, tileY, layer, wallPos, elevation, wallSettings) ==
    LET startY == WallStartY(layer, wallSettings)
        endY == wallSettings.height
    IN  [k \in 1 .. (endY - startY + 1) |->
            WallVoxel(sec, tileX, tileY, layer, wallPos, elevation, wallSettings,
                      startY + k - 1)]

WallFacing(tile, indoors) ==
    IF indoors
    THEN IF tile.topBorderWall # 0 THEN "south" ELSE "west"
    ELSE IF tile.topBorderWall # 0 THEN "north" ELSE "east"

\* mutant: an outdoor wall stands on its own tile
WallColumns_OutdoorOnTile(sec, tileX, tileY, layer, blockPos, tile, indoors, elevation, wallSettings) ==
    IF indoors /\ tile.rightBorderWall # 0 /\ tile.topBorderWall # 0
    THEN LET noDoor == [wallSettings EXCEPT !.doorBlock = NullBlock]
         IN  buildWall(sec, tileX, tileY, layer, add(blockPos, 1, 0, 0),
                       elevation, noDoor)
             \o buildWall(sec, tileX, tileY, layer, add(blockPos, 1, 0, -1),
                          elevation, noDoor)
             \o buildWall(sec, tileX, tileY, layer, add(blockPos, 0, 0, -1),
                          elevation, wallSettings)
    ELSE IF ~indoors
    THEN buildWall(sec, tileX, tileY, layer, blockPos, elevation, wallSettings)
    ELSE IF tile.topBorderWall # 0
    THEN buildWall(sec, tileX, tileY, layer, add(blockPos, 0, 0, -1), elevation,
                   wallSettings)
    ELSE IF tile.rightBorderWall # 0
    THEN buildWall(sec, tileX, tileY, layer, add(blockPos, 1, 0, 0), elevation,
                   wallSettings)
    ELSE buildWall(sec, tileX, tileY, layer, blockPos, elevation, wallSettings)

\* the wall columns of one tile on one layer, in call order
WallColumns(sec, tileX, tileY, layer, blockPos, tile, indoors, elevation, wallSettings) ==
    IF indoors /\ tile.rightBorderWall # 0 /\ tile.topBorderWall # 0
    THEN LET noDoor == [wallSettings EXCEPT !.doorBlock = NullBlock]
         IN  buildWall(sec, tileX, tileY, layer, add(blockPos, 1, 0, 0),
                       elevation, noDoor)
             \o buildWall(sec, tileX, tileY, layer, add(blockPos, 1, 0, -1),
                          elevation, noDoor)
             \o buildWall(sec, tileX, tileY, layer, add(blockPos, 0, 0, -1),
                          elevation, wallSettings)
    ELSE IF tile.topBorderWall # 0
    THEN buildWall(sec, tileX, tileY, layer, add(blockPos, 0, 0, -1), elevation,
                   wallSettings)
    ELSE IF tile.rightBorderWall # 0
    THEN buildWall(sec, tileX, tileY, layer, add(blockPos, 1, 0, 0), elevation,
                   wallSettings)
    ELSE buildWall(sec, tileX, tileY, layer, blockPos, elevation, wallSettings)

\* tree is what placeTree ends with: the host grows an oak, or a spruce,
\* or the script falls back to a dead bush
ObjectBlocks(objectId, tree) ==
    CASE objectId = 1 -> <<tree>>
      [] objectId \in {2, 35} -> <<"fern">>
      [] objectId \in {3, 27} -> <<"water_cauldron[level=3]">>
      [] objectId = 4 -> <<"crafting_table">>
      [] objectId = 5 -> <<"oak_log">>
      [] objectId \in {7, 119} -> <<"furnace">>
      [] objectId = 6 -> <<"oak_stairs">>
      [] objectId \in {8, 11, 24} -> <<"oak_slab">>
      [] objectId \in {10, 30} -> <<"oak_planks">>
      [] objectId \in {13, 14} -> <<"cobblestone">>
      [] objectId \in {16, 20} -> <<"white_wool">>
      [] objectId = 21 -> <<"smooth_stone">>
      [] objectId = 26 -> <<"end_rod[facing=down]", "white_candle[lit=true]">>
      [] objectId = 38 -> <<"poppy">>
      [] objectId = 39 -> <<"brown_mushroom">>
      [] objectId = 46 -> <<"jungle_fence">>
      [] objectId = 55 -> <<"composter">>
      [] objectId = 61 -> <<"oak_fence_gate">>
      [] objectId \in {62, 90} -> <<"oak_sign">>
      [] objectId = 65 -> <<"air">>
      [] OTHER -> <<"lime_wool">>

\* mutant: the object replaces the floor voxel
placeObject_InFloor(objectId, groundPos, tree) ==
    LET blockPos == groundPos
        bs == ObjectBlocks(objectId, tree)
    IN  [k \in 1 .. Len(bs) |->
            Placement(add(blockPos, 0, k - 1, 0), bs[k], "buildWalls", "object")]

placeObject(objectId, groundPos, tree) ==
    LET blockPos == add(groundPos, 0, 1, 0)
        bs == ObjectBlocks(objectId, tree)
    IN  [k \in 1 .. Len(bs) |->
            Placement(add(blockPos, 0, k - 1, 0), bs[k], "buildWalls", "object")]

\* one iteration of the layer loop of buildWalls
WallLayerPlacements(sec, mcs, blockPos, layer, tileX, tileY, random, tree) ==
    LET tile == sec[layer][tileX][tileY]
        tmc == mcs[layer][tileX][tileY]
        indoors == isTileIndoors(tmc.overlaySettings, mcs[0][tileX][tileY].overlaySettings)
        rawType == getWallType(tile)
        wallType == IF isWall(rawType) THEN normalizeWallType(rawType) ELSE rawType
        walls ==
            IF isWall(rawType)
            THEN WallColumns(sec, tileX, tileY, layer, blockPos, tile, indoors,
                             tmc.elevation,
                             getWallSettings(tile, wallType,
                                             WallFacing(tile, indoors), random))
            ELSE <<>>
        objects ==
            IF wallType >= OBJECT_BASE
            THEN placeObject(wallType - OBJECT_BASE,
                             withY(blockPos, levelY(tmc.elevation, 0)), tree)
            ELSE <<>>
    IN  walls \o objects

RECURSIVE buildWallsFrom(_, _, _, _, _, _, _, _)
buildWallsFrom(layer, sec, mcs, sectorMinBlockPos, tileX, tileY, random, tree) ==
    IF layer >= NUM_LAYERS THEN [mc |-> mcs, out |-> <<>>, thrown |-> FALSE]
    ELSE LET blockPos == getBlockPosForTile(sectorMinBlockPos, tileX, tileY)
             indoors == isTileIndoors(mcs[layer][tileX][tileY].overlaySettings,
                                      mcs[0][tileX][tileY].overlaySettings)
             mcs1 == [mcs EXCEPT ![layer][tileX][tileY].indoors = indoors,
                                 ![layer][tileX][tileY].writes.indoors = @ + 1]
             here == Tagged(WallLayerPlacements(sec, mcs, blockPos, layer,
                                                tileX, tileY, random[layer],
                                                tree[layer]),
                            layer, tileX, tileY)
             rest == buildWallsFrom(layer + 1, sec, mcs1, sectorMinBlockPos,
                                    tileX, tileY, random, tree)
         IN  [mc |-> rest.mc, out |-> here \o rest.out, thrown |-> rest.thrown]

buildWalls(sec, mcs, sectorMinBlockPos, tileX, tileY, random, tree) ==
    buildWallsFrom(0, sec, mcs, sectorMinBlockPos, tileX, tileY, random, tree)

(***************************************************************************)
(* Roofs.                                                                  *)
(***************************************************************************)
RoofMaterial(roofTexture) ==
    CASE roofTexture = 1 -> "polished_granite"
      [] roofTexture = 2 -> "spruce"
      [] roofTexture = 3 -> "cobbled_deepslate"
      [] roofTexture = 6 -> "smooth_sandstone"
      [] OTHER -> "pink_wool"

\* facing is NullBlock for the plain piece of the texture
placeRoof(roofTexture, blockPos, facing, kind) ==
    LET block ==
            IF ~(roofTexture \in {1, 2, 3, 6}) THEN "pink_wool"
            ELSE IF facing # NullBlock
            THEN RoofMaterial(roofTexture) \o "_stairs[facing=" \o facing \o "]"
            ELSE IF roofTexture = 2 THEN "spruce_planks"
            ELSE RoofMaterial(roofTexture)
    IN  Placement(blockPos, block, "buildRoofs", kind)

\* what a try block of buildRoofs reads: the roofTexture of the tile at
\* (x, y), or a TypeError when that tile is outside the grid
RoofReadThrows(x, y) == ~InGrid(x, y)

\* mutant: the corner of a roof gets its two edges but no corner piece
RoofedTilePieces_NoCorner(sec, layer, tileX, tileY, pos) ==
    LET tile == sec[layer][tileX][tileY]
        north == <<tileX, tileY - 1>>
        east == <<tileX - 1, tileY>>
        roofAt(t) == sec[layer][t[1]][t[2]].roofTexture
        edges ==
            IF RoofReadThrows(north[1], north[2]) \/ RoofReadThrows(east[1], east[2])
            THEN <<placeRoof(tile.roofTexture, pos, NullBlock, "plain")>>
            ELSE IF roofAt(north) = 0 /\ roofAt(east) = 0
            THEN <<placeRoof(tile.roofTexture, add(pos, 1, 0, 0), "west", "edge"),
                   placeRoof(tile.roofTexture, add(pos, 0, 0, -1), "south", "edge")>>
            ELSE IF roofAt(north) = 0
            THEN <<placeRoof(tile.roofTexture, add(pos, 0, 0, -1), "south", "edge")>>
            ELSE IF roofAt(east) = 0
            THEN <<placeRoof(tile.roofTexture, add(pos, 1, 0, 0), "west", "edge")>>
            ELSE <<placeRoof(tile.roofTexture, pos, NullBlock, "plain")>>
    IN  edges \o <<placeRoof(tile.roofTexture, pos, NullBlock, "plain")>>

\* the pieces for a tile that has a roof texture, placed from pos, the
\* tile's own position at roof height: the try block with its catch, then
\* the piece over the tile itself
RoofedTilePieces(sec, layer, tileX, tileY, pos) ==
    LET tile == sec[layer][tileX][tileY]
        north == <<tileX, tileY - 1>>
        east == <<tileX - 1, tileY>>
        roofAt(t) == sec[layer][t[1]][t[2]].roofTexture
        edges ==
            IF RoofReadThrows(north[1], north[2]) \/ RoofReadThrows(east[1], east[2])
            THEN <<placeRoof(tile.roofTexture, pos, NullBlock, "plain")>>
            ELSE IF roofAt(north) = 0 /\ roofAt(east) = 0
            THEN <<placeRoof(tile.roofTexture, add(pos, 1, 0, -1),
                             "west,shape=outer_left", "corner"),
                   placeRoof(tile.roofTexture, add(pos, 1, 0, 0), "west", "edge"),
                   placeRoof(tile.roofTexture, add(pos, 0, 0, -1), "south", "edge")>>
            ELSE IF roofAt(north) = 0
            THEN <<placeRoof(tile.roofTexture, add(pos, 0, 0, -1), "south", "edge")>>
            ELSE IF roofAt(east) = 0
            THEN <<placeRoof(tile.roofTexture, add(pos, 1, 0, 0), "west", "edge")>>
            ELSE <<placeRoof(tile.roofTexture, pos, NullBlock, "plain")>>
    IN  edges \o <<placeRoof(tile.roofTexture, pos, NullBlock, "plain")>>

\* mutant: the edge piece of an unroofed border tile goes over the tile itself
RoofLayerPlacements_EdgeOnOwnTile(sec, mcs, blockPos, layer, tileX, tileY) ==
    LET tile == sec[layer][tileX][tileY]
        elevation == mcs[layer][tileX][tileY].elevation
        roofY == levelY(elevation, ROOF_HEIGHT)
        north == <<tileX, tileY - 1>>
        east == <<tileX - 1, tileY>>
        northEast == <<tileX - 1, tileY - 1>>
        roofAt(t) == sec[layer][t[1]][t[2]].roofTexture
    IN  IF tile.roofTexture # 0
        THEN [pos |-> withY(blockPos, roofY),
              out |-> RoofedTilePieces(sec, layer, tileX, tileY,
                                       withY(blockPos, roofY))]
        ELSE IF tile.topBorderWall # 0
        THEN [pos |-> blockPos,
              out |->
                IF RoofReadThrows(north[1], north[2])
                   \/ RoofReadThrows(northEast[1], northEast[2])
                THEN <<>>
                ELSE IF roofAt(north) # 0
                THEN (IF roofAt(northEast) = 0
                      THEN <<placeRoof(roofAt(north),
                                       add(withY(blockPos, roofY), 1, 0, -1),
                                       "north,shape=outer_left", "corner")>>
                      ELSE <<>>)
                     \o <<placeRoof(roofAt(north),
                                    add(withY(blockPos, roofY), 0, 0, 0),
                                    "north", "edge")>>
                ELSE <<>>]
        ELSE IF tile.rightBorderWall # 0
        THEN [pos |-> blockPos,
              out |->
                IF RoofReadThrows(east[1], east[2])
                   \/ RoofReadThrows(northEast[1], northEast[2])
                THEN <<>>
                ELSE IF roofAt(east) # 0
                THEN (IF roofAt(northEast) = 0
                      THEN <<placeRoof(roofAt(east),
                                       add(withY(blockPos, roofY), 1, 0, -1),
                                       "south,shape=outer_left", "corner")>>
                      ELSE <<>>)
                     \o <<placeRoof(roofAt(east),
                                    add(withY(blockPos, roofY), 0, 0, 0),
                                    "east", "edge")>>
                ELSE <<>>]
        ELSE [pos |-> blockPos,
              out |->
                IF RoofReadThrows(northEast[1], northEast[2]) THEN <<>>
                ELSE IF roofAt(northEast) # 0
                THEN <<placeRoof(roofAt(northEast),
                                 add(withY(blockPos, roofY), 1, 0, -1),
                                 "east,shape=outer_left", "corner")>>
                ELSE <<>>]

\* one iteration of the layer loop of buildRoofs; blockPos is the running
\* variable of the function, which keeps the Y of the last roofed layer
RoofLayerPlacements(sec, mcs, blockPos, layer, tileX, tileY) ==
    LET tile == sec[layer][tileX][tileY]
        elevation == mcs[layer][tileX][tileY].elevation
        roofY == levelY(elevation, ROOF_HEIGHT)
        north == <<tileX, tileY - 1>>
        east == <<tileX - 1, tileY>>
        northEast == <<tileX - 1, tileY - 1>>
        roofAt(t) == sec[layer][t[1]][t[2]].roofTexture
    IN  IF tile.roofTexture # 0
        THEN [pos |-> withY(blockPos, roofY),
              out |-> RoofedTilePieces(sec, layer, tileX, tileY,
                                       withY(blockPos, roofY))]
        ELSE IF tile.topBorderWall # 0
        THEN [pos |-> blockPos,
              out |->
                IF RoofReadThrows(north[1], north[2])
                   \/ RoofReadThrows(northEast[1], northEast[2])
                THEN <<>>
                ELSE IF roofAt(north) # 0
                THEN (IF roofAt(northEast) = 0
                      THEN <<placeRoof(roofAt(north),
                                       add(withY(blockPos, roofY), 1, 0, -1),
                                       "north,shape=outer_left", "corner")>>
                      ELSE <<>>)
                     \o <<placeRoof(roofAt(north),
                                    add(withY(blockPos, roofY), 0, 0, -1),
                                    "north", "edge")>>
                ELSE <<>>]
        ELSE IF tile.rightBorderWall # 0
        THEN [pos |-> blockPos,
              out |->
                IF RoofReadThrows(east[1], east[2])
                   \/ RoofReadThrows(northEast[1], northEast[2])
                THEN <<>>
                ELSE IF roofAt(east) # 0
                THEN (IF roofAt(northEast) = 0
                      THEN <<placeRoof(roofAt(east),
                                       add(withY(blockPos, roofY), 1, 0, -1),
                                       "south,shape=outer_left", "corner")>>
                      ELSE <<>>)
                     \o <<placeRoof(roofAt(east),
                                    add(withY(blockPos, roofY), 1, 0, 0),
                                    "east", "edge")>>
                ELSE <<>>]
        ELSE [pos |-> blockPos,
              out |->
                IF RoofReadThrows(northEast[1], northEast[2]) THEN <<>>
                ELSE IF roofAt(northEast) # 0
                THEN <<placeRoof(roofAt(northEast),
                                 add(withY(blockPos, roofY), 1, 0, -1),
                                 "east,shape=outer_left", "corner")>>
                ELSE <<>>]

RECURSIVE buildRoofsFrom(_, _, _, _, _, _)
buildRoofsFrom(layer, sec, mcs, blockPos, tileX, tileY) ==
    IF layer >= NUM_LAYERS THEN <<>>
    ELSE LET here == RoofLayerPlacements(sec, mcs, blockPos, layer, tileX, tileY)
         IN  Tagged(here.out, layer, tileX, tileY)
             \o buildRoofsFrom(layer + 1, sec, mcs, here.pos, tileX, tileY)

buildRoofs(sec, mcs, sectorMinBlockPos, tileX, tileY) ==
    buildRoofsFrom(0, sec, mcs,
                   getBlockPosForTile(sectorMinBlockPos, tileX, tileY),
                   tileX, tileY)

(***************************************************************************)
(* The decoder.                                                            *)
(***************************************************************************)
\* the stream is the entry's bytes as InputStream.read() returns them
streamToBuffer(inputStream) ==
    [i \in 1 .. Len(inputStream) |-> toSigned(inputStream[i])]

\* the position of the buffer when the tile (x, y) is read: every tile
\* before it took 6 get() and one getInt()
TileCursor(x, y) == (x * SECTOR_SIZE + y) * (6 + 4)

ReadTile(buffer, cursor) ==
    [groundElevation |-> toUnsigned(buffer[cursor + 1]),
     groundTexture |-> toUnsigned(buffer[cursor + 2]),
     groundOverlay |-> toUnsigned(buffer[cursor + 3]),
     roofTexture |-> toUnsigned(buffer[cursor + 4]),
     rightBorderWall |-> toUnsigned(buffer[cursor + 5]),
     topBorderWall |-> toUnsigned(buffer[cursor + 6]),
     diagonalWalls |-> getInt(buffer[cursor + 7], buffer[cursor + 8],
                              buffer[cursor + 9], buffer[cursor + 10])]

\* mutant: the decoder insists on the exact length
loadSectorThrows_ExactLength(inputStream) ==
    Len(inputStream) # SECTOR_SIZE * SECTOR_SIZE * (6 + 4)

\* a get() or getInt() past the end of the buffer: BufferUnderflowException
loadSectorThrows(inputStream) ==
    \E x \in TileIdx, y \in TileIdx : TileCursor(x, y) + (6 + 4) > Len(inputStream)

loadSector(inputStream) ==
    LET buffer == streamToBuffer(inputStream)
    IN  [x \in TileIdx |-> [y \in TileIdx |-> ReadTile(buffer, TileCursor(x, y))]]

(***************************************************************************)
(* State.                                                                  *)
(*   input      argv and what the host answers: the selection mode, the    *)
(*              clean argument, whether the archive file can be opened,    *)
(*              the player's block and the selected region                 *)
(*   archive    the entries of the archive: sector id -> bytes             *)
(*   range      minSectorCoords and maxSectorCoords of main                *)
(*   clean      the clean flag                                             *)
(*   sectorX, sectorY   the loop variables of main                         *)
(*   sector     the array of layers of the sector being processed          *)
(*   mc         tile.mc of every tile of that sector                       *)
(*   tileX, tileY       the loop variables of the pass of processSector    *)
(*   placed     every blocks.setBlock call so far, in call order           *)
(*   loaded     the sector ids loadSector has decoded, in call order       *)
(*   processed  the coordinates processSector has returned for             *)
(*   pc         where the script is                                        *)
(*   arg, res   the argument and the result of a function that is called   *)
(*              on its own (the specifications of the pure functions)      *)
(***************************************************************************)
VARIABLES input, archive, range, clean, sectorX, sectorY, sector, mc,
          tileX, tileY, placed, loaded, processed, pc, arg, res

vars == <<input, archive, range, clean, sectorX, sectorY, sector, mc,
          tileX, tileY, placed, loaded, processed, pc, arg, res>>

NoRange == [min |-> <<0, 0, 0>>, max |-> <<0, 0, 0>>]

NoSector == [layer \in Layers |-> Undefined]

(***************************************************************************)
(* main, up to the first iteration of its loops.                           *)
(***************************************************************************)
\* minSectorCoords and maxSectorCoords for a known selection mode
SelectRange(in) ==
    IF in.mode = "full"
    THEN [min |-> <<MIN_SECTOR_X, 0, MIN_SECTOR_Y>>,
          max |-> <<MAX_SECTOR_X, 0, MAX_SECTOR_Y>>]
    ELSE IF in.mode = "chunk"
    THEN [min |-> getContainingSectorCoords(in.playerPos),
          max |-> getContainingSectorCoords(in.playerPos)]
    ELSE [min |-> getContainingSectorCoords(in.regionMin),
          max |-> getContainingSectorCoords(in.regionMax)]

\* mutant: a failure to open the archive does not end main
MainBegin_OpensAnyway ==
    /\ UNCHANGED <<arg, res>>
    /\ pc = "main"
    /\ IF ~(input.mode \in {"full", "chunk", "region"})
       THEN \* Unknown parameter: return
            /\ pc' = "done"
            /\ UNCHANGED <<range, clean, sectorX, sectorY>>
       ELSE LET r == SelectRange(input)
            IN  /\ range' = r
                /\ clean' = (input.cleanArg = "--clean")
                /\ IF FALSE
                   THEN \* new ZipFile(file) throws; main catches and returns
                        /\ pc' = "done"
                        /\ UNCHANGED <<sectorX, sectorY>>
                   ELSE /\ sectorX' = r.min[1]
                        /\ sectorY' = r.min[3]
                        /\ pc' = IF r.min[1] <= r.max[1] /\ r.min[3] <= r.max[3]
                                 THEN "load" ELSE "done"
    /\ UNCHANGED <<input, archive, sector, mc, tileX, tileY, placed, loaded,
                   processed>>

MainBegin ==
    /\ UNCHANGED <<arg, res>>
    /\ pc = "main"
    /\ IF ~(input.mode \in {"full", "chunk", "region"})
       THEN \* Unknown parameter: return
            /\ pc' = "done"
            /\ UNCHANGED <<range, clean, sectorX, sectorY>>
       ELSE LET r == SelectRange(input)
            IN  /\ range' = r
                /\ clean' = (input.cleanArg = "--clean")
                /\ IF ~input.fileOk
                   THEN \* new ZipFile(file) throws; main catches and returns
                        /\ pc' = "done"
                        /\ UNCHANGED <<sectorX, sectorY>>
                   ELSE /\ sectorX' = r.min[1]
                        /\ sectorY' = r.min[3]
                        /\ pc' = IF r.min[1] <= r.max[1] /\ r.min[3] <= r.max[3]
                                 THEN "load" ELSE "done"
    /\ UNCHANGED <<input, archive, sector, mc, tileX, tileY, placed, loaded,
                   processed>>

(***************************************************************************)
(* The layer loop of main for one sector coordinate: every layer that has  *)
(* an entry is decoded, the others stay undefined.                         *)
(***************************************************************************)
HasEntry(layer) == getSectorId(layer, sectorX, sectorY) \in DOMAIN archive

\* the first layer whose decoding throws, or NUM_LAYERS
FirstBadLayer ==
    LET bad == {l \in Layers :
                   HasEntry(l)
                   /\ loadSectorThrows(archive[getSectorId(l, sectorX, sectorY)])}
    IN  IF bad = {} THEN NUM_LAYERS
        ELSE CHOOSE l \in bad : \A m \in bad : l <= m

RECURSIVE LoadedIds(_, _)
LoadedIds(layer, upTo) ==
    IF layer >= upTo THEN <<>>
    ELSE (IF HasEntry(layer) THEN <<getSectorId(layer, sectorX, sectorY)>>
          ELSE <<>>)
         \o LoadedIds(layer + 1, upTo)

LoadLayers ==
    /\ UNCHANGED <<arg, res>>
    /\ pc = "load"
    /\ LET bad == FirstBadLayer
       IN  /\ loaded' = loaded \o LoadedIds(0, bad)
           /\ sector' = [l \in Layers |->
                            IF HasEntry(l) /\ l < bad
                            THEN loadSector(archive[getSectorId(l, sectorX, sectorY)])
                            ELSE Undefined]
           /\ pc' = IF bad < NUM_LAYERS THEN "aborted" ELSE "clean"
    /\ mc' = NoMcs
    /\ tileX' = 0
    /\ tileY' = 0
    /\ UNCHANGED <<input, archive, range, clean, sectorX, sectorY, placed,
                   processed>>

(***************************************************************************)
(* processSector.                                                          *)
(***************************************************************************)
sectorMinBlockPos == getMinBlockPosForSector(sectorX, sectorY)

\* the tile after (x, y) in for (tileX ...) for (tileY ...)
LastTile(x, y) == x = SECTOR_SIZE - 1 /\ y = SECTOR_SIZE - 1
NextTileX(x, y) == IF y = SECTOR_SIZE - 1 THEN (x + 1) % SECTOR_SIZE ELSE x
NextTileY(x, y) == (y + 1) % SECTOR_SIZE

\* the clean loop, for one tile
CleanTile(x, y) ==
    LET blockPos == getBlockPosForTile(sectorMinBlockPos, x, y)
    IN  [k \in 1 .. CLEAN_HEIGHT |->
            Placement(withY(blockPos, BEDROCK_LEVEL + (k - 1)), "air",
                      "processSector", "clean")]

RECURSIVE CleanFrom(_)
CleanFrom(k) ==
    IF k >= SECTOR_SIZE * SECTOR_SIZE THEN <<>>
    ELSE Tagged(CleanTile(k \div SECTOR_SIZE, k % SECTOR_SIZE), -1,
                k \div SECTOR_SIZE, k % SECTOR_SIZE)
         \o CleanFrom(k + 1)

CleanSector ==
    /\ UNCHANGED <<arg, res>>
    /\ pc = "clean"
    /\ placed' = IF clean THEN placed \o CleanFrom(0) ELSE placed
    /\ pc' = "floors"
    /\ tileX' = 0
    /\ tileY' = 0
    /\ UNCHANGED <<input, archive, range, clean, sectorX, sectorY, sector, mc,
                   loaded, processed>>

\* mutant: the roofs are built before the walls
NextPass_RoofsBeforeWalls(pass) ==
    CASE pass = "floors" -> "roofs"
      [] pass = "roofs" -> "walls"
      [] pass = "walls" -> "return"

\* the pass that follows a pass
NextPass(pass) ==
    CASE pass = "floors" -> "walls"
      [] pass = "walls" -> "roofs"
      [] pass = "roofs" -> "return"

\* the loop variables and pc after the call for the tile (tileX, tileY)
StepTile ==
    /\ tileX' = NextTileX(tileX, tileY)
    /\ tileY' = NextTileY(tileX, tileY)
    /\ pc' = IF LastTile(tileX, tileY) THEN NextPass(pc) ELSE pc

\* mutant: the annotations of the call are lost
BuildFloors_DropsAnnotation ==
    /\ UNCHANGED <<arg, res>>
    /\ pc = "floors"
    /\ LET r == buildFloors(sector, mc, sectorMinBlockPos, tileX, tileY)
       IN  /\ placed' = placed \o r.out
           /\ mc' = mc
           /\ IF r.thrown
              THEN pc' = "aborted" /\ UNCHANGED <<tileX, tileY>>
              ELSE StepTile
    /\ UNCHANGED <<input, archive, range, clean, sectorX, sectorY, sector,
                   loaded, processed>>

BuildFloors ==
    /\ UNCHANGED <<arg, res>>
    /\ pc = "floors"
    /\ LET r == buildFloors(sector, mc, sectorMinBlockPos, tileX, tileY)
       IN  /\ placed' = placed \o r.out
           /\ mc' = r.mc
           /\ IF r.thrown
              THEN pc' = "aborted" /\ UNCHANGED <<tileX, tileY>>
              ELSE StepTile
    /\ UNCHANGED <<input, archive, range, clean, sectorX, sectorY, sector,
                   loaded, processed>>

\* the outcomes of Math.random() and of the tree generator that the call
\* for this tile can see
RandomChoices(layer) ==
    LET wallType == getWallType(sector[layer][tileX][tileY])
    IN  IF isWall(wallType) /\ normalizeWallType(wallType) = 42
        THEN 0 .. (WALL_HEIGHT - 1) ELSE {0}

TreeChoices(layer) ==
    IF getWallType(sector[layer][tileX][tileY]) = OBJECT_BASE + 1
    THEN {"oak_tree", "spruce_tree", "dead_bush"} ELSE {"dead_bush"}

\* the index of the first placement of a null block, or 0
FirstNull(out) ==
    LET nulls == {k \in 1 .. Len(out) : out[k].block = NullBlock}
    IN  IF nulls = {} THEN 0 ELSE CHOOSE k \in nulls : \A j \in nulls : k <= j

\* one outcome per layer, drawn from choices[layer]
RECURSIVE OutcomesFrom(_, _)
OutcomesFrom(choices, layer) ==
    IF layer >= NUM_LAYERS THEN {<<>>}
    ELSE {<<c>> \o rest : c \in choices[layer],
                          rest \in OutcomesFrom(choices, layer + 1)}

Outcomes(choices) ==
    {[layer \in Layers |-> o[layer + 1]] : o \in OutcomesFrom(choices, 0)}

\* blocks.setBlock(pos, null) is outside the script: the host either throws,
\* which ends the script, or takes the call
BuildWalls ==
    /\ UNCHANGED <<arg, res>>
    /\ pc = "walls"
    /\ \E random \in Outcomes([l \in Layers |-> RandomChoices(l)]),
          tree \in Outcomes([l \in Layers |-> TreeChoices(l)]) :
          LET r == buildWalls(sector, mc, sectorMinBlockPos, tileX, tileY,
                              random, tree)
              k == FirstNull(r.out)
          IN  /\ mc' = r.mc
              /\ \E hostThrowsOnNull \in IF k > 0 THEN BOOLEAN ELSE {FALSE} :
                    IF hostThrowsOnNull
                    THEN /\ placed' = placed \o SubSeq(r.out, 1, k - 1)
                         /\ pc' = "aborted"
                         /\ UNCHANGED <<tileX, tileY>>
                    ELSE /\ placed' = placed \o r.out
                         /\ StepTile
    /\ UNCHANGED <<input, archive, range, clean, sectorX, sectorY, sector,
                   loaded, processed>>

\* mutant: a read outside the grid ends the script
BuildRoofs_AbortsAtBoundary ==
    /\ UNCHANGED <<arg, res>>
    /\ pc = "roofs"
    /\ IF RoofReadThrows(tileX - 1, tileY - 1)
       THEN pc' = "aborted" /\ UNCHANGED <<placed, tileX, tileY>>
       ELSE /\ placed' = placed \o buildRoofs(sector, mc, sectorMinBlockPos, tileX, tileY)
            /\ StepTile
    /\ UNCHANGED <<input, archive, range, clean, sectorX, sectorY, sector, mc,
                   loaded, processed>>

BuildRoofs ==
    /\ UNCHANGED <<arg, res>>
    /\ pc = "roofs"
    /\ placed' = placed \o buildRoofs(sector, mc, sectorMinBlockPos, tileX, tileY)
    /\ StepTile
    /\ UNCHANGED <<input, archive, range, clean, sectorX, sectorY, sector, mc,
                   loaded, processed>>

(***************************************************************************)
(* processSector returns: the increments of the loops of main.  A call of  *)
(* processSector that did not come from main (mode "direct") just ends.    *)
(***************************************************************************)
Return ==
    /\ UNCHANGED <<arg, res>>
    /\ pc = "return"
    /\ processed' = Append(processed, <<sectorX, sectorY>>)
    /\ IF input.mode = "direct"
       THEN pc' = "done" /\ UNCHANGED <<sectorX, sectorY>>
       ELSE IF sectorY + 1 <= range.max[3]
       THEN pc' = "load" /\ sectorY' = sectorY + 1 /\ sectorX' = sectorX
       ELSE IF sectorX + 1 <= range.max[1]
       THEN pc' = "load" /\ sectorX' = sectorX + 1 /\ sectorY' = range.min[3]
       ELSE pc' = "done" /\ UNCHANGED <<sectorX, sectorY>>
    /\ UNCHANGED <<input, archive, range, clean, sector, mc, tileX, tileY,
                   placed, loaded>>

(***************************************************************************)
(* Inputs.                                                                 *)
(***************************************************************************)
MkTile(groundElevation, groundTexture, groundOverlay, roofTexture, rightBorderWall, topBorderWall, diagonalWalls) ==
    [groundElevation |-> groundElevation, groundTexture |-> groundTexture,
     groundOverlay |-> groundOverlay, roofTexture |-> roofTexture,
     rightBorderWall |-> rightBorderWall, topBorderWall |-> topBorderWall,
     diagonalWalls |-> diagonalWalls]

PlainTile == MkTile(0, 10, 0, 0, 0, 0, 0)

UniformGrid(tile) == [x \in TileIdx |-> [y \in TileIdx |-> tile]]

UniformSector(tile) == [layer \in Layers |-> UniformGrid(tile)]

\* the bytes of an archive entry that holds the grid: the serialization the
\* decoder reads, tile by tile, x outer and y inner
EncodeInt(v) ==
    <<(v \div 16777216) % 256, (v \div 65536) % 256, (v \div 256) % 256, v % 256>>

EncodeTile(tile) ==
    <<tile.groundElevation, tile.groundTexture, tile.groundOverlay,
      tile.roofTexture, tile.rightBorderWall, tile.topBorderWall>>
    \o EncodeInt(tile.diagonalWalls)

RECURSIVE EncodeFrom(_, _)
EncodeFrom(grid, k) ==
    IF k >= SECTOR_SIZE * SECTOR_SIZE THEN <<>>
    ELSE EncodeTile(grid[k \div SECTOR_SIZE][k % SECTOR_SIZE]) \o EncodeFrom(grid, k + 1)

EncodeGrid(grid) == EncodeFrom(grid, 0)

NoInput ==
    [mode |-> "direct", cleanArg |-> "absent", fileOk |-> TRUE,
     playerPos |-> <<0, 0, 0>>, regionMin |-> <<0, 0, 0>>,
     regionMax |-> <<0, 0, 0>>]

\* the state at a call processSector(sec, sx, sy, cl)
ProcessInit(sec, sx, sy, cl) ==
    /\ input = NoInput
    /\ archive = <<>>
    /\ range = NoRange
    /\ clean = cl
    /\ sectorX = sx
    /\ sectorY = sy
    /\ sector = sec
    /\ mc = NoMcs
    /\ tileX = 0
    /\ tileY = 0
    /\ placed = <<>>
    /\ loaded = <<>>
    /\ processed = <<>>
    /\ pc = "clean"
    /\ arg = <<>>
    /\ res = <<>>

NextProcess == CleanSector \/ BuildFloors \/ BuildWalls \/ BuildRoofs \/ Return

\* the tiles the inputs put their features on: a corner of the grid and an
\* inner tile
FocusTiles == {<<0, 0>>, <<1, 1>>}

(***************************************************************************)
(* Floors: processSector on a sector of plain tiles with one tile whose    *)
(* ground and overlays vary.                                               *)
(***************************************************************************)
FloorElevations == {0, 31, 40, 255}
FloorTextures == {10, 110}
FloorOverlays == {0, 1, 2, 3, 8}
UpperOverlays == {0, 2, 3, 8}

FloorSector(f, groundElevation, groundTexture, overlay0, overlay1) ==
    [layer \in Layers |->
        [x \in TileIdx |-> [y \in TileIdx |->
            IF <<x, y>> # f THEN PlainTile
            ELSE IF layer = 0
            THEN MkTile(groundElevation, groundTexture, overlay0, 0, 0, 0, 0)
            ELSE MkTile(0, 0, overlay1, 0, 0, 0, 0)]]]

InitFloors ==
    \E f \in FocusTiles, ge \in FloorElevations, gt \in FloorTextures,
       o0 \in FloorOverlays, o1 \in UpperOverlays :
        ProcessInit(FloorSector(f, ge, gt, o0, o1), MIN_SECTOR_X, MIN_SECTOR_Y, FALSE)

SpecFloors == InitFloors /\ [][NextProcess]_vars

(***************************************************************************)
(* What the claims speak of.                                               *)
(***************************************************************************)
\* the calls the iteration for (layer, x, y) of the function `by` made, in
\* call order, and what they placed where
PlacedFor(by, layer, x, y) ==
    SelectSeq(placed, LAMBDA p : p.by = by /\ p.layer = layer
                                 /\ p.tileX = x /\ p.tileY = y)

Voxels(out) == [k \in 1 .. Len(out) |-> <<out[k].pos, out[k].block, out[k].kind>>]

ColumnOf(x, y) == getBlockPosForTile(sectorMinBlockPos, x, y)

\* the pass has made its call for the tile (x, y)
PassedTile(pass, x, y) ==
    \/ pc = pass /\ x * SECTOR_SIZE + y < tileX * SECTOR_SIZE + tileY
    \/ pass = "floors" /\ pc \in {"walls", "roofs", "return", "done"}
    \/ pass = "walls" /\ pc \in {"roofs", "return", "done"}
    \/ pass = "roofs" /\ pc \in {"return", "done"}

WallCases ==
    { <<2, 2, 0>>, <<3, 3, 0>>, <<1, 1, 0>>, <<2, 0, 0>>, <<0, 2, 0>>,
      <<1, 0, 0>>, <<0, 1, 0>>, <<0, 0, 1>>, <<0, 0, 12001>>,
      <<0, 0, 48026>>, <<0, 0, 48002>>, <<0, 0, -1>>, <<0, 0, 0>> }

WallLayers == {0, 1}

\* 3 is a wood floor (indoors), 0 no overlay
WallOverlays == {0, 3}

\* a stone wall and a doorway
NeighbourCodes == {1, 2}

WallSector(f, fl, w, overlay, groundOverlay, nd, ncode) ==
    [layer \in Layers |->
        [x \in TileIdx |-> [y \in TileIdx |->
            IF <<x, y>> = f /\ layer = fl
            THEN MkTile(0, 10, overlay, 0, w[2], w[1], w[3])
            ELSE IF <<x, y>> = f /\ layer = 0
            THEN MkTile(0, 10, groundOverlay, 0, 0, 0, 0)
            ELSE IF nd > 0 /\ layer = fl
                    /\ <<x, y>> = <<f[1] + NeighbourOffsets[nd][1],
                                    f[2] + NeighbourOffsets[nd][2]>>
            THEN MkTile(0, 10, 0, 0, 0, ncode, 0)
            ELSE PlainTile]]]

InitWalls ==
    \E f \in FocusTiles, fl \in WallLayers, w \in WallCases,
       overlay \in WallOverlays, groundOverlay \in WallOverlays,
       nd \in 0 .. Len(NeighbourOffsets), ncode \in NeighbourCodes :
        /\ fl = 0 => groundOverlay = overlay
        /\ nd = 0 => ncode = 1
        /\ nd > 0 => InGrid(f[1] + NeighbourOffsets[nd][1],
                            f[2] + NeighbourOffsets[nd][2])
        /\ ProcessInit(WallSector(f, fl, w, overlay, groundOverlay, nd, ncode),
                       MIN_SECTOR_X, MIN_SECTOR_Y, FALSE)

SpecWalls == InitWalls /\ [][NextProcess]_vars

\* the columns (x and z) a sequence of calls touches
Columns(out) == {<<out[k].pos[1], out[k].pos[3]>> : k \in 1 .. Len(out)}

InColumn(out, col) ==
    SelectSeq(out, LAMBDA p : <<p.pos[1], p.pos[3]>> = col)

HasDoor(out) == \E k \in 1 .. Len(out) : out[k].kind = "door"

\* an indoor tile with the same doorway code on its top and right border
DoorCorner(layer, x, y) ==
    /\ sector[layer][x][y].topBorderWall \in DoorwayTypes
    /\ sector[layer][x][y].rightBorderWall = sector[layer][x][y].topBorderWall
    /\ isTileIndoors(mc[layer][x][y].overlaySettings, mc[0][x][y].overlaySettings)

\* the three columns of an inside corner
CornerColumns(x, y) ==
    LET c == ColumnOf(x, y)
    IN  { <<c[1] + 1, c[3]>>, <<c[1] + 1, c[3] - 1>>, <<c[1], c[3] - 1>> }

\* C3: for an indoor tile with the same doorway code on both borders,
\* buildWalls makes three columns (east, north-east, north), exactly one of
\* them has door voxels, and every voxel of the two others is the material of
\* a neighbouring wall whenever getNeighbouringWallBlock finds one.
C3_DoorCornerBlends ==
    \A layer \in Layers, x \in TileIdx, y \in TileIdx :
        PassedTile("walls", x, y) /\ DoorCorner(layer, x, y) =>
            LET out == PlacedFor("buildWalls", layer, x, y)
                borrowed == getNeighbouringWallBlock(sector, layer, x, y)
            IN  /\ Columns(out) = CornerColumns(x, y)
                /\ Cardinality({c \in Columns(out) : HasDoor(InColumn(out, c))}) = 1
                /\ \A c \in Columns(out) :
                      ~HasDoor(InColumn(out, c)) /\ borrowed # NullBlock =>
                          \A k \in 1 .. Len(InColumn(out, c)) :
                              InColumn(out, c)[k].block = borrowed

\* what does hold of the three columns: one door column, the two others of
\* the doorway's own material
C3_DoorCornerColumns ==
    \A layer \in Layers, x \in TileIdx, y \in TileIdx :
        PassedTile("walls", x, y) /\ DoorCorner(layer, x, y) =>
            LET out == PlacedFor("buildWalls", layer, x, y)
            IN  /\ Columns(out) = CornerColumns(x, y)
                /\ Cardinality({c \in Columns(out) : HasDoor(InColumn(out, c))}) = 1

(***************************************************************************)
(* Roofs: processSector on a sector in which, on one layer, a 2x2 group of *)
(* tiles carries any pattern of roofs, the tiles outside the group are all *)
(* roofed or all unroofed, and the unroofed tiles of the group carry no    *)
(* wall, a top-border wall or a right-border wall.                         *)
(* North is tileY - 1 and east is tileX - 1: the group at (bx, by) has its *)
(* north-west tile at (bx + 1, by).                                        *)
(***************************************************************************)
GroupOrigins == {<<bx, by>> : bx \in 0 .. (SECTOR_SIZE - 2), by \in 0 .. (SECTOR_SIZE - 2)}

GroupTiles(g) ==
    { <<g[1], g[2]>>, <<g[1] + 1, g[2]>>, <<g[1], g[2] + 1>>, <<g[1] + 1, g[2] + 1>> }

NorthWest(g) == <<g[1] + 1, g[2]>>

RoofLayers == {0, 1}

\* none, a stone wall on the top border, a stone wall on the right border,
\* a stone wall on both
RoofWallCases == { <<0, 0>>, <<1, 0>>, <<0, 1>>, <<1, 1>> }

RoofSector(g, rl, roofed, outside, w) ==
    [layer \in Layers |->
        [x \in TileIdx |-> [y \in TileIdx |->
            IF layer # rl THEN PlainTile
            ELSE IF <<x, y>> \in GroupTiles(g)
            THEN IF <<x, y>> \in roofed THEN MkTile(0, 10, 0, 1, 0, 0, 0)
                 ELSE MkTile(0, 10, 0, 0, w[2], w[1], 0)
            ELSE MkTile(0, 10, 0, outside, 0, 0, 0)]]]

InitRoofs ==
    \E g \in GroupOrigins, rl \in RoofLayers, outside \in {0, 1},
       w \in RoofWallCases :
        \E roofed \in SUBSET GroupTiles(g) :
            ProcessInit(RoofSector(g, rl, roofed, outside, w),
                        MIN_SECTOR_X, MIN_SECTOR_Y, FALSE)

SpecRoofs == InitRoofs /\ [][NextProcess]_vars

HasWalls(tile) ==
    tile.topBorderWall # 0 \/ tile.rightBorderWall # 0 \/ tile.diagonalWalls # 0

\* on the layer, of the group at g only the north-west tile is roofed and no
\* tile of the group has walls
LoneNorthWestRoof(layer, g) ==
    /\ \A t \in GroupTiles(g) :
          /\ (sector[layer][t[1]][t[2]].roofTexture # 0) = (t = NorthWest(g))
          /\ ~HasWalls(sector[layer][t[1]][t[2]])

\* the roof pieces the roof pass placed in its calls for the tiles of the
\* group: where, and whether plain, edge or corner
GroupRoofPieces(layer, g) ==
    UNION { {<<out[k].pos, out[k].kind>> : k \in 1 .. Len(out)} :
            out \in {PlacedFor("buildRoofs", layer, t[1], t[2]) : t \in GroupTiles(g)} }

RoofPos(layer, x, y) ==
    withY(ColumnOf(x, y), levelY(mc[layer][x][y].elevation, ROOF_HEIGHT))

NoRoofOutside(layer, g) ==
    \A x \in TileIdx, y \in TileIdx :
        <<x, y>> \notin GroupTiles(g) => sector[layer][x][y].roofTexture = 0

\* no tile of the layer has walls
NoWallsOnLayer(layer) ==
    \A x \in TileIdx, y \in TileIdx : ~HasWalls(sector[layer][x][y])

\* every roof piece the roof pass placed for the layer: where, and whether
\* plain, edge or corner
LayerRoofPieces(layer) ==
    {<<placed[k].pos, placed[k].kind>> :
        k \in {j \in 1 .. Len(placed) :
                  placed[j].by = "buildRoofs" /\ placed[j].layer = layer}}

PassRank(p) ==
    CASE p.by = "processSector" -> 0
      [] p.by = "buildFloors" -> 1
      [] p.by = "buildWalls" -> 2
      [] p.by = "buildRoofs" -> 3

PlacedBy(by) == {k \in 1 .. Len(placed) : placed[k].by = by}

\* C1: within processSector no placement of an earlier pass follows one of a
\* later pass, and once a wall or object placement exists buildFloors has
\* been called for every tile, once a roof placement exists buildWalls has
\* been called for every tile.
C1_PassesOrdered ==
    /\ \A k \in 1 .. (Len(placed) - 1) : PassRank(placed[k]) <= PassRank(placed[k + 1])
    /\ PlacedBy("buildWalls") # {} =>
          \A x \in TileIdx, y \in TileIdx :
              /\ PassedTile("floors", x, y)
              /\ \A layer \in Layers : mc[layer][x][y].set
    /\ PlacedBy("buildRoofs") # {} =>
          \A x \in TileIdx, y \in TileIdx : PassedTile("walls", x, y)

C1_Witness ==
    /\ pc = "done"
    /\ PlacedBy("buildFloors") # {}
    /\ PlacedBy("buildWalls") # {}
    /\ PlacedBy("buildRoofs") # {}

(***************************************************************************)
(* main: every selection mode, clean argument and outcome of opening the   *)
(* archive, on an archive that holds the layers of the sectors (48, 37)    *)
(* and (48, 38), all of them or all but one.                               *)
(***************************************************************************)
SectorA == <<MIN_SECTOR_X, MIN_SECTOR_Y>>
SectorB == <<MIN_SECTOR_X, MIN_SECTOR_Y + 1>>
SectorC == <<MIN_SECTOR_X + 1, MIN_SECTOR_Y>>

\* a block inside the sector
InnerBlock(c) == getBlockPosForTile(getMinBlockPosForSector(c[1], c[2]), 1, 1)

\* the grid of a layer in the archive: a ground floor with a roofed indoor
\* tile behind a stone wall, a first floor with a lamp
ArchiveGrid(layer) ==
    [x \in TileIdx |-> [y \in TileIdx |->
        IF layer = 0 /\ <<x, y>> = <<1, 1>> THEN MkTile(40, 60, 3, 1, 0, 1, 0)
        ELSE IF layer = 1 /\ <<x, y>> = <<0, 0>>
        THEN MkTile(0, 0, 0, 0, 0, 0, OBJECT_BASE + 26)
        ELSE PlainTile]]

ArchiveEntries == {<<l, c[1], c[2]>> : l \in Layers, c \in {SectorA, SectorB}}

ArchiveOf(entries) ==
    [id \in {getSectorId(e[1], e[2], e[3]) : e \in entries} |->
        EncodeGrid(ArchiveGrid(
            (CHOOSE e \in entries : getSectorId(e[1], e[2], e[3]) = id)[1]))]

Archives ==
    {ArchiveOf(ArchiveEntries)}
    \cup {ArchiveOf(ArchiveEntries \ {e}) : e \in ArchiveEntries}

Selections ==
    {[mode |-> "full", playerPos |-> <<0, 0, 0>>, regionMin |-> <<0, 0, 0>>,
      regionMax |-> <<0, 0, 0>>],
     [mode |-> "bogus", playerPos |-> <<0, 0, 0>>, regionMin |-> <<0, 0, 0>>,
      regionMax |-> <<0, 0, 0>>]}
    \cup {[mode |-> "chunk", playerPos |-> InnerBlock(c),
           regionMin |-> <<0, 0, 0>>, regionMax |-> <<0, 0, 0>>] :
             c \in {SectorA, SectorB}}
    \cup {[mode |-> "region", playerPos |-> <<0, 0, 0>>,
           regionMin |-> r[1], regionMax |-> r[2]] :
             r \in { <<InnerBlock(SectorA), InnerBlock(SectorA)>>,
                     <<InnerBlock(SectorA), InnerBlock(SectorB)>>,
                     <<InnerBlock(SectorC), InnerBlock(SectorA)>> }}

Init ==
    /\ \E sel \in Selections, cleanArg \in {"absent", "--clean", "-c"},
          fileOk \in BOOLEAN :
          input = [mode |-> sel.mode, cleanArg |-> cleanArg, fileOk |-> fileOk,
                   playerPos |-> sel.playerPos, regionMin |-> sel.regionMin,
                   regionMax |-> sel.regionMax]
    /\ archive \in Archives
    /\ range = NoRange
    /\ clean = FALSE
    /\ sectorX = 0
    /\ sectorY = 0
    /\ sector = NoSector
    /\ mc = NoMcs
    /\ tileX = 0
    /\ tileY = 0
    /\ placed = <<>>
    /\ loaded = <<>>
    /\ processed = <<>>
    /\ pc = "main"
    /\ arg = <<>>
    /\ res = <<>>

Next ==
    \/ MainBegin
    \/ LoadLayers
    \/ CleanSector
    \/ BuildFloors
    \/ BuildWalls
    \/ BuildRoofs
    \/ Return

Spec == Init /\ [][Next]_vars

\* the sector coordinates the loops of main range over
Requested ==
    {<<x, y>> : x \in range.min[1] .. range.max[1],
                y \in range.min[3] .. range.max[3]}

\* the archive lacks the entry of a layer of the coordinate
MissingEntry(c) ==
    \E l \in Layers : getSectorId(l, c[1], c[2]) \notin DOMAIN archive

\* main got as far as its loops
ReachedLoops == input.mode \in {"full", "chunk", "region"} /\ input.fileOk

ProcessedCoords == {processed[k] : k \in 1 .. Len(processed)}

\* C2: when the archive lacks an entry of a requested coordinate, the run
\* ends without a fatal error and every requested coordinate whose entries
\* are all there has been processed.
C2_MissingSectorSkipped ==
    /\ ReachedLoops
    /\ pc \in {"done", "aborted"}
    /\ \E c \in Requested : MissingEntry(c)
    => /\ pc = "done"
       /\ \A c \in Requested : ~MissingEntry(c) => c \in ProcessedCoords

(***************************************************************************)
(* The functions that are called on their own: arg holds the argument,     *)
(* res the result, and nothing else moves.                                 *)
(***************************************************************************)
CallInit(a) ==
    /\ input = NoInput
    /\ archive = <<>>
    /\ range = NoRange
    /\ clean = FALSE
    /\ sectorX = 0
    /\ sectorY = 0
    /\ sector = NoSector
    /\ mc = NoMcs
    /\ tileX = 0
    /\ tileY = 0
    /\ placed = <<>>
    /\ loaded = <<>>
    /\ processed = <<>>
    /\ pc = "call"
    /\ arg = a
    /\ res = <<>>

Returned(r) ==
    /\ pc = "call"
    /\ res' = r
    /\ pc' = "done"
    /\ UNCHANGED <<input, archive, range, clean, sectorX, sectorY, sector, mc,
                   tileX, tileY, placed, loaded, processed, arg>>

(***************************************************************************)
(* The coordinate transform, on every sector coordinate of the map and     *)
(* every tile of the sector.                                               *)
(***************************************************************************)
InitCoords ==
    \E sx \in MIN_SECTOR_X .. MAX_SECTOR_X, sy \in MIN_SECTOR_Y .. MAX_SECTOR_Y,
       x \in TileIdx, y \in TileIdx :
        CallInit([sectorX |-> sx, sectorY |-> sy, tileX |-> x, tileY |-> y])

CallCoords ==
    LET min == getMinBlockPosForSector(arg.sectorX, arg.sectorY)
        tile == getBlockPosForTile(min, arg.tileX, arg.tileY)
    IN  Returned([min |-> min,
                  sectorOfMin |-> getContainingSectorCoords(min),
                  tile |-> tile,
                  sectorOfTile |-> getContainingSectorCoords(tile)])

SpecCoords == InitCoords /\ [][CallCoords]_vars

\* C6: for every sector coordinate (sx, sy) with 48 <= sx <= 68 and
\* 37 <= sy <= 57, getContainingSectorCoords(getMinBlockPosForSector(sx, sy))
\* is (sx, sy).
C6_SectorOfOrigin ==
    /\ pc = "done"
    /\ arg.sectorX \in 48 .. 68
    /\ arg.sectorY \in 37 .. 57
    => /\ res.min = getMinBlockPosForSector(arg.sectorX, arg.sectorY)
       /\ res.sectorOfMin[1] = arg.sectorX
       /\ res.sectorOfMin[3] = arg.sectorY

C6_Witness ==
    /\ pc = "done"
    /\ arg.sectorX = 68
    /\ arg.sectorY = 57
    /\ res.sectorOfMin = <<68, 0, 57>>

(***************************************************************************)
(* The decoder, on payloads of several lengths around the SECTOR_SIZE *    *)
(* SECTOR_SIZE * (6 + 4) bytes it reads; the bytes of a payload run from a *)
(* first value in steps of a stride.                                       *)
(***************************************************************************)
TilesPerSector == SECTOR_SIZE * SECTOR_SIZE

PayloadLengths ==
    {0, TilesPerSector * 7, TilesPerSector * (6 + 4) - 1, TilesPerSector * (6 + 4),
     TilesPerSector * (6 + 4) + 1, TilesPerSector * (6 + 4) + 7}

PayloadFirsts == {0, 85, 170, 255}

PayloadStrides == {0, 1, 37, 128}

Payload(len, first, stride) ==
    [i \in 1 .. len |-> (first + (i - 1) * stride) % 256]

InitDecode ==
    \E len \in PayloadLengths, first \in PayloadFirsts, stride \in PayloadStrides :
        CallInit(Payload(len, first, stride))

\* loadSector on the entry's bytes: the tile grid, or the exception
DecodeSector ==
    Returned(IF loadSectorThrows(arg)
             THEN [ok |-> FALSE, grid |-> Undefined]
             ELSE [ok |-> TRUE, grid |-> loadSector(arg)])

SpecDecode == InitDecode /\ [][DecodeSector]_vars

OneByteFields(tile) ==
    {tile.groundElevation, tile.groundTexture, tile.groundOverlay,
     tile.roofTexture, tile.rightBorderWall, tile.topBorderWall}

\* C8: every payload of SECTOR_SIZE * SECTOR_SIZE * 7 bytes decodes, and
\* writing the decoded tiles back in decode order reproduces it.
C8_RoundTripSevenBytes ==
    pc = "done" /\ Len(arg) = TilesPerSector * 7 =>
        res.ok /\ EncodeGrid(res.grid) = arg

\* C8 as amended: every payload of SECTOR_SIZE * SECTOR_SIZE * 10 bytes
\* decodes, and writing the decoded tiles back in decode order (x outer, y
\* inner; the six one-byte fields as unsigned bytes, then diagonalWalls as a
\* signed 32-bit big-endian integer) reproduces it; each one-byte field is
\* in 0..255, and toUnsigned(toSigned(b)) = b for every b in 0..255.
C8_RoundTripTenBytes ==
    /\ \A b \in 0 .. 255 : toUnsigned(toSigned(b)) = b
    /\ pc = "done" /\ Len(arg) = TilesPerSector * 10 =>
          /\ res.ok
          /\ EncodeGrid(res.grid) = arg
          /\ \A x \in TileIdx, y \in TileIdx :
                /\ OneByteFields(res.grid[x][y]) \subseteq 0 .. 255
                /\ res.grid[x][y].diagonalWalls >= -2147483647 - 1
                /\ res.grid[x][y].diagonalWalls <= 2147483647

C8_Witness ==
    /\ pc = "done"
    /\ Len(arg) = TilesPerSector * 10
    /\ res.ok
    /\ \E x \in TileIdx, y \in TileIdx :
          /\ res.grid[x][y].diagonalWalls < 0
          /\ res.grid[x][y].groundElevation > 127

(***************************************************************************)
(* The ground palette, on every byte.                                      *)
(***************************************************************************)
InitPalette == \E paletteIndex \in 0 .. 255 : CallInit(paletteIndex)

CallPalette == Returned(getBlockTypeFromPalette(arg))

SpecPalette == InitPalette /\ [][CallPalette]_vars

\* the bands as the claim lists them: exclusive upper bound and material
PaletteBands ==
    << <<16, "stone">>, <<48, "lime_terracotta">>, <<80, "grass_block">>,
       <<96, "green_concrete_powder">>, <<104, "lime_terracotta">>,
       <<144, "dirt_path">>, <<164, "packed_mud">>, <<176, "dirt">>,
       <<208, "coarse_dirt">>, <<216, "podzol">>, <<256, "grass_block">> >>

BandLow(k) == IF k = 1 THEN 0 ELSE PaletteBands[k - 1][1]

BandsOf(code) ==
    {k \in DOMAIN PaletteBands : BandLow(k) <= code /\ code < PaletteBands[k][1]}

\* C9: every palette code 0..255 lies in exactly one of the bands bounded by
\* 16, 48, 80, 96, 104, 144, 164, 176, 208, 216 and the remainder, that band
\* is the first whose exclusive upper bound exceeds the code, and
\* getBlockTypeFromPalette returns its material.
C9_PaletteBands ==
    pc = "done" /\ arg \in 0 .. 255 =>
        /\ Cardinality(BandsOf(arg)) = 1
        /\ \A k \in BandsOf(arg) :
              /\ \A j \in DOMAIN PaletteBands : arg < PaletteBands[j][1] => k <= j
              /\ res = PaletteBands[k][2]

C9_Witness ==
    /\ pc = "done"
    /\ arg = 103
    /\ res = "lime_terracotta"

(***************************************************************************)
(* Wall codes: processSector on a sector of plain tiles with one tile, on  *)
(* the ground floor or the first floor, whose three wall fields vary.      *)
(***************************************************************************)
BorderCodes == {0, 1, 255}

DiagonalCodes ==
    {-2147483647, -1, 0, 1, DIAGONAL_BASE - 1, DIAGONAL_BASE, DIAGONAL_BASE + 1,
     DIAGONAL_BASE + 42, OBJECT_BASE - 1, OBJECT_BASE, OBJECT_BASE + 1,
     OBJECT_BASE + 26, OBJECT_BASE + 12000, 2147483647}

WallCodeSector(f, fl, top, right, diag) ==
    [layer \in Layers |->
        [x \in TileIdx |-> [y \in TileIdx |->
            IF layer = fl /\ <<x, y>> = f THEN MkTile(0, 10, 0, 0, right, top, diag)
            ELSE PlainTile]]]

InitWallCodes ==
    \E f \in FocusTiles, fl \in {0, 1}, top \in BorderCodes, right \in BorderCodes,
       diag \in DiagonalCodes :
        /\ (top # 0 \/ right # 0) => diag \in {0, OBJECT_BASE + 26}
        /\ ProcessInit(WallCodeSector(f, fl, top, right, diag),
                       MIN_SECTOR_X, MIN_SECTOR_Y, FALSE)

SpecWallCodes == InitWallCodes /\ [][NextProcess]_vars

Kinds(out) == {out[k].kind : k \in 1 .. Len(out)}

\* C10: a raw wall code c >= 48000 is an object reference (isWall false) with
\* object id c - 48000 >= 0, and buildWalls places that object and no wall;
\* a code 0 < c < 48000 is a wall, normalised to c - 12000 when c >= 12000
\* and to c otherwise, and buildWalls places no object for it; a code <= 0
\* is neither, and buildWalls places nothing for it.
C10_WallCodeClasses ==
    \A layer \in Layers, x \in TileIdx, y \in TileIdx :
        PassedTile("walls", x, y) =>
            LET c == getWallType(sector[layer][x][y])
                out == PlacedFor("buildWalls", layer, x, y)
            IN  /\ c >= 48000 =>
                      /\ ~isWall(c)
                      /\ normalizeWallType(c) = c - 48000
                      /\ c - 48000 >= 0
                      /\ Kinds(out) = {"object"}
                /\ (0 < c /\ c < 48000) =>
                      /\ isWall(c)
                      /\ normalizeWallType(c) = IF c >= 12000 THEN c - 12000 ELSE c
                      /\ "object" \notin Kinds(out)
                /\ c <= 0 =>
                      /\ ~isWall(c)
                      /\ out = <<>>

C10_Witness ==
    /\ pc = "done"
    /\ \E layer \in Layers, x \in TileIdx, y \in TileIdx :
          /\ getWallType(sector[layer][x][y]) = 48000 + 26
          /\ Len(PlacedFor("buildWalls", layer, x, y)) = 2

(***************************************************************************)
(* The lookup tables, on every code 1..255: the material a code of the     *)
(* overlay, wall, roof or object table resolves to.                        *)
(***************************************************************************)
\* the codes the tables have a branch for
KnownOverlays ==
    {1, 2, 3, 4, 5, 6, 7, 8, 9, 11, 12, 13, 14, 15, 16, 17, 18, 19, 20, 21, 23,
     24, 250}

KnownWallTypes ==
    DoorwayTypes
    \cup {1, 4, 5, 6, 7, 8, 11, 14, 15, 16, 17, 19, 25, 35, 42, 43, 57, 63, 77,
          87, 102, 117, 120, 127, 128, 145, 148, 149, 150, 164, 165, 176, 177,
          182, 183, 184, 185, 186, 187, 194, 200, 202}

KnownRoofTextures == {1, 2, 3, 6}

KnownObjects ==
    {1, 2, 3, 4, 5, 6, 7, 8, 10, 11, 13, 14, 16, 20, 21, 24, 26, 27, 30, 35, 38,
     39, 46, 55, 61, 62, 65, 90, 119}

KnownCodes(table) ==
    CASE table = "overlay" -> KnownOverlays
      [] table = "wall" -> KnownWallTypes
      [] table = "roof" -> KnownRoofTextures
      [] table = "object" -> KnownObjects

\* the material the table gives the code: the overlay's block, the wall's
\* block, the plain roof piece, the object's first voxel
TableMaterial(table, code) ==
    CASE table = "overlay" -> getOverlaySettings(code).block
      [] table = "wall" -> getWallSettings(PlainTile, code, "north", 0).block
      [] table = "roof" -> placeRoof(code, <<0, 0, 0>>, NullBlock, "plain").block
      [] table = "object" -> placeObject(code, <<0, 0, 0>>, "oak_tree")[1].block

InitTables ==
    \E table \in {"overlay", "wall", "roof", "object"}, code \in 1 .. 255 :
        CallInit([table |-> table, code |-> code])

LookupTable == Returned(TableMaterial(arg.table, arg.code))

SpecTables == InitTables /\ [][LookupTable]_vars

\* C11: a code that is not in its table's known set resolves to a material
\* that no known code of the same table resolves to.
C11_FallbackDistinct ==
    pc = "done" /\ arg.code \notin KnownCodes(arg.table) =>
        \A k \in KnownCodes(arg.table) : TableMaterial(arg.table, k) # res

(***************************************************************************)
(* getWallSettings called twice with the same arguments: every wall code   *)
(* 1..255, every facing, with and without diagonalWalls; each call draws   *)
(* its own Math.random().                                                  *)
(***************************************************************************)
InitWallSettings ==
    \E wallType \in 1 .. 255, facing \in Facings, diagonal \in {0, 1} :
        CallInit([wallType |-> wallType, facing |-> facing,
                  tile |-> MkTile(0, 10, 0, 0, 0, 0, diagonal)])

CallWallSettingsTwice ==
    \E random1 \in 0 .. (WALL_HEIGHT - 1), random2 \in 0 .. (WALL_HEIGHT - 1) :
        Returned(<<getWallSettings(arg.tile, arg.wallType, arg.facing, random1),
                   getWallSettings(arg.tile, arg.wallType, arg.facing, random2)>>)

SpecWallSettings == InitWallSettings /\ [][CallWallSettingsTwice]_vars

\* the values the claim compares
Directive(wallSettings) ==
    <<wallSettings.block, wallSettings.height, wallSettings.doorBlock,
      wallSettings.windowBlock, wallSettings.ensureAboveGround>>

C13_BadArgumentsDoNothing ==
    ~ReachedLoops =>
        /\ pc \in {"main", "done"}
        /\ loaded = <<>>
        /\ placed = <<>>
        /\ processed = <<>>

C13_Witness ==
    /\ pc = "done"
    /\ input.mode = "full"
    /\ ~input.fileOk
    /\ placed = <<>>

\* a tile with a wall on exactly one of its two borders
SingleBorderWall(layer, x, y) ==
    LET tile == sector[layer][x][y]
    IN  /\ (tile.topBorderWall # 0) # (tile.rightBorderWall # 0)
        /\ isWall(getWallType(tile))

Indoors(layer, x, y) ==
    isTileIndoors(mc[layer][x][y].overlaySettings, mc[0][x][y].overlaySettings)

\* the column one voxel north (top border) or east (right border) of the tile
ShiftedColumn(layer, x, y) ==
    LET c == ColumnOf(x, y)
    IN  IF sector[layer][x][y].topBorderWall # 0 THEN <<c[1], c[3] - 1>>
        ELSE <<c[1] + 1, c[3]>>

OwnColumn(x, y) == <<ColumnOf(x, y)[1], ColumnOf(x, y)[3]>>

\* C14: for a tile with a single border wall, an indoor wall column is placed
\* one voxel north (top border) or east (right border), an outdoor wall
\* column at the tile's own position.
C14_OutdoorWallOnTile ==
    \A layer \in Layers, x \in TileIdx, y \in TileIdx :
        PassedTile("walls", x, y) /\ SingleBorderWall(layer, x, y) =>
            Columns(PlacedFor("buildWalls", layer, x, y))
            = IF Indoors(layer, x, y) THEN {ShiftedColumn(layer, x, y)}
              ELSE {OwnColumn(x, y)}

\* C14 as amended: for a tile with a single border wall the wall column is
\* placed one voxel north (top border) or east (right border) of the tile,
\* indoors and outdoors alike.
C14_EveryBorderWallShifted ==
    \A layer \in Layers, x \in TileIdx, y \in TileIdx :
        PassedTile("walls", x, y) /\ SingleBorderWall(layer, x, y) =>
            Columns(PlacedFor("buildWalls", layer, x, y))
            = {ShiftedColumn(layer, x, y)}

C14_Witness ==
    \E layer \in Layers, x \in TileIdx, y \in TileIdx :
        /\ PassedTile("walls", x, y)
        /\ SingleBorderWall(layer, x, y)
        /\ ~Indoors(layer, x, y)
        /\ sector[layer][x][y].rightBorderWall # 0
        /\ Columns(PlacedFor("buildWalls", layer, x, y))
           = {<<ColumnOf(x, y)[1] + 1, ColumnOf(x, y)[3]>>}

\* wallSettings.block of the tile's own wall directive
OwnWallBlock(layer, x, y) ==
    LET tile == sector[layer][x][y]
    IN  getWallSettings(tile, normalizeWallType(getWallType(tile)),
                        WallFacing(tile, Indoors(layer, x, y)), 0).block

\* C15: in a wall column that carries a door, every non-door voxel is the
\* material the neighbour search returns when a neighbour qualifies and the
\* directive's own wall material when none does; a null material is never
\* placed.
C15_DoorColumnFallsBack ==
    \A layer \in Layers, x \in TileIdx, y \in TileIdx :
        PassedTile("walls", x, y) =>
            LET out == PlacedFor("buildWalls", layer, x, y)
                borrowed == getNeighbouringWallBlock(sector, layer, x, y)
            IN  \A c \in Columns(out) :
                    HasDoor(InColumn(out, c)) =>
                        \A k \in 1 .. Len(InColumn(out, c)) :
                            LET p == InColumn(out, c)[k]
                            IN  /\ p.block # NullBlock
                                /\ p.kind # "door" =>
                                      p.block = IF borrowed # NullBlock THEN borrowed
                                                ELSE OwnWallBlock(layer, x, y)

(***************************************************************************)
(* Storeys: processSector on a sector of plain tiles with one tile that    *)
(* has, on each layer, no overlay, an outdoor overlay (1, a path) or an    *)
(* indoor overlay (3, a wood floor).                                       *)
(***************************************************************************)
StoreyOverlays == {0, 1, 3}

StoreySector(f, overlays) ==
    [layer \in Layers |->
        [x \in TileIdx |-> [y \in TileIdx |->
            IF <<x, y>> = f THEN MkTile(0, 10, overlays[layer], 0, 0, 0, 0)
            ELSE PlainTile]]]

InitStoreys ==
    \E f \in FocusTiles, overlays \in [Layers -> StoreyOverlays] :
        ProcessInit(StoreySector(f, overlays), MIN_SECTOR_X, MIN_SECTOR_Y, FALSE)

SpecStoreys == InitStoreys /\ [][NextProcess]_vars

\* the indoor flag of the overlay directive of a tile; none without overlay
OverlayIndoors(layer, x, y) ==
    /\ sector[layer][x][y].groundOverlay # 0
    /\ getOverlaySettings(sector[layer][x][y].groundOverlay).indoors

\* C16: a tile on a layer L > 0 without overlay of its own has the indoor
\* flag of the overlay directive of the tile below it on layer L - 1; a tile
\* with its own overlay has that overlay's indoor flag.
C16_IndoorsFromLayerBelow ==
    \A layer \in Layers, x \in TileIdx, y \in TileIdx :
        PassedTile("walls", x, y) /\ layer > 0 =>
            mc[layer][x][y].indoors
            = IF sector[layer][x][y].groundOverlay # 0
              THEN OverlayIndoors(layer, x, y)
              ELSE OverlayIndoors(layer - 1, x, y)

\* C16 as amended: a tile on a layer L > 0 without overlay of its own has the
\* indoor flag of the overlay directive of the tile at the same place on
\* layer 0 (not indoors when that tile has no overlay either); a tile with
\* its own overlay has that overlay's indoor flag.
C16_IndoorsFromGround ==
    \A layer \in Layers, x \in TileIdx, y \in TileIdx :
        PassedTile("walls", x, y) /\ layer > 0 =>
            mc[layer][x][y].indoors
            = IF sector[layer][x][y].groundOverlay # 0
              THEN OverlayIndoors(layer, x, y)
              ELSE OverlayIndoors(0, x, y)

C16_Witness ==
    \E x \in TileIdx, y \in TileIdx :
        /\ PassedTile("walls", x, y)
        /\ sector[2][x][y].groundOverlay = 0
        /\ ~OverlayIndoors(1, x, y)
        /\ sector[1][x][y].groundOverlay # 0
        /\ OverlayIndoors(0, x, y)
        /\ mc[2][x][y].indoors

\* the tile's elevation on layer 0 is not an overlay's overrideElevation
NoOverride(x, y) ==
    ~(mc[0][x][y].overlaySettings.defined
      /\ mc[0][x][y].overlaySettings.overrideElevation # 0)

EdgeSector(f, fl, kind, nd) ==
    [layer \in Layers |->
        [x \in TileIdx |-> [y \in TileIdx |->
            IF layer # fl THEN PlainTile
            ELSE IF <<x, y>> = f
            THEN IF kind = "roof" THEN MkTile(0, 10, 0, 1, 0, 0, 0)
                 ELSE MkTile(0, 10, 3, 0, 0, 2, 0)
            ELSE IF nd > 0 /\ <<x, y>> = <<f[1] + NeighbourOffsets[nd][1],
                                           f[2] + NeighbourOffsets[nd][2]>>
            THEN IF kind = "roof" THEN MkTile(0, 10, 0, 1, 0, 0, 0)
                 ELSE MkTile(0, 10, 0, 0, 0, 1, 0)
            ELSE PlainTile]]]

InitEdges ==
    \E x \in TileIdx, y \in TileIdx, fl \in {0, 1}, kind \in {"roof", "door"},
       nd \in 0 .. Len(NeighbourOffsets) :
        /\ nd > 0 => InGrid(x + NeighbourOffsets[nd][1], y + NeighbourOffsets[nd][2])
        /\ ProcessInit(EdgeSector(<<x, y>>, fl, kind, nd),
                       MIN_SECTOR_X, MIN_SECTOR_Y, FALSE)

SpecEdges == InitEdges /\ [][NextProcess]_vars

Roofed(layer, x, y) == sector[layer][x][y].roofTexture # 0

\* the tile has a neighbour on the layer, inside the grid, with a stone wall
StoneNeighbour(layer, x, y) ==
    \E k \in DOMAIN NeighbourOffsets :
        LET nx == x + NeighbourOffsets[k][1]
            ny == y + NeighbourOffsets[k][2]
        IN  InGrid(nx, ny) /\ sector[layer][nx][ny].topBorderWall = 1

\* C18: a neighbour index outside the grid never ends the script, neither in
\* the roof pass nor in the neighbour search for a door column: the script
\* only ever ends early on a door column without any qualifying neighbour;
\* the call for a roofed tile on the north or east edge of the sector writes
\* only the plain piece at the tile's own position; a door column whose
\* stone neighbour comes after neighbours outside the grid still takes the
\* stone; and every roofed tile of every layer has got its roof when the
\* pass is over.
C18_EdgesNeverAbort ==
    /\ pc = "aborted" =>
          \E layer \in Layers :
              /\ sector[layer][tileX][tileY].topBorderWall \in DoorwayTypes
              /\ ~StoneNeighbour(layer, tileX, tileY)
    /\ \A layer \in Layers, x \in TileIdx, y \in TileIdx :
          /\ PassedTile("roofs", x, y) /\ Roofed(layer, x, y)
             /\ (x = 0 \/ y = 0) =>
                {Voxels(PlacedFor("buildRoofs", layer, x, y))[k] :
                    k \in 1 .. Len(PlacedFor("buildRoofs", layer, x, y))}
                = { <<RoofPos(layer, x, y), "polished_granite", "plain">> }
          /\ PassedTile("walls", x, y)
             /\ sector[layer][x][y].topBorderWall \in DoorwayTypes
             /\ StoneNeighbour(layer, x, y) =>
                \A k \in 1 .. Len(PlacedFor("buildWalls", layer, x, y)) :
                    PlacedFor("buildWalls", layer, x, y)[k].kind = "blend" =>
                        PlacedFor("buildWalls", layer, x, y)[k].block = "stone_bricks"
          /\ pc \in {"return", "done"} /\ Roofed(layer, x, y) =>
                \E k \in 1 .. Len(PlacedFor("buildRoofs", layer, x, y)) :
                    PlacedFor("buildRoofs", layer, x, y)[k].kind = "plain"

C18_Witness ==
    /\ pc = "done"
    /\ \E layer \in Layers :
          /\ Roofed(layer, 0, 0)
          /\ Roofed(layer, 0, 1)
          /\ Len(PlacedFor("buildRoofs", layer, 0, 0)) = 2
          /\ Len(PlacedFor("buildRoofs", layer, 0, 1)) = 2

\* what the roof pass wrote in its call for the tile on the layer
RoofVoxels(layer, x, y) ==
    {Voxels(PlacedFor("buildRoofs", layer, x, y))[k] :
        k \in 1 .. Len(PlacedFor("buildRoofs", layer, x, y))}

\* C19: for a roofed tile whose north (tileY - 1) and east (tileX - 1)
\* neighbours are inside the sector, the roof pass places the plain piece at
\* the tile's own position at elevation + ROOF_HEIGHT and, besides, nothing
\* when both neighbours are roofed, an edge piece one voxel north when only
\* the north neighbour is unroofed, an edge piece one voxel east when only
\* the east neighbour is unroofed, and an outer corner piece at the
\* north-east diagonal with both edge pieces when both are unroofed.
C19_RoofedTilePieces ==
    \A layer \in Layers, x \in TileIdx, y \in TileIdx :
        PassedTile("roofs", x, y) /\ Roofed(layer, x, y) /\ x >= 1 /\ y >= 1 =>
            LET own == withY(ColumnOf(x, y),
                             BEDROCK_LEVEL
                             + mc[layer][x][y].elevation \div ELEVATION_DIV
                             + ROOF_HEIGHT)
                plain == <<own, "polished_granite", "plain">>
                north == <<add(own, 0, 0, -1),
                           "polished_granite_stairs[facing=south]", "edge">>
                east == <<add(own, 1, 0, 0),
                          "polished_granite_stairs[facing=west]", "edge">>
                corner == <<add(own, 1, 0, -1),
                            "polished_granite_stairs[facing=west,shape=outer_left]",
                            "corner">>
            IN  RoofVoxels(layer, x, y)
                = IF Roofed(layer, x, y - 1) /\ Roofed(layer, x - 1, y)
                  THEN {plain}
                  ELSE IF Roofed(layer, x - 1, y) THEN {plain, north}
                  ELSE IF Roofed(layer, x, y - 1) THEN {plain, east}
                  ELSE {plain, north, east, corner}

C19_Witness ==
    /\ pc = "done"
    /\ \E layer \in Layers, x \in TileIdx, y \in TileIdx :
          /\ x >= 1 /\ y >= 1
          /\ Roofed(layer, x, y)
          /\ ~Roofed(layer, x, y - 1)
          /\ ~Roofed(layer, x - 1, y)
          /\ Cardinality(RoofVoxels(layer, x, y)) = 4

\* the branch of buildRoofs an unroofed tile takes: its top border wall
\* first, its right border wall only when it has no top border wall
RoofBorder(layer, x, y) ==
    IF sector[layer][x][y].topBorderWall # 0 THEN "top"
    ELSE IF sector[layer][x][y].rightBorderWall # 0 THEN "right"
    ELSE "none"

\* the neighbour across the border the roof pass looks at: north of a top
\* border, east of a right border
AcrossBorder(layer, x, y) ==
    IF RoofBorder(layer, x, y) = "top" THEN <<x, y - 1>> ELSE <<x - 1, y>>

\* an unroofed tile with a border wall whose neighbour across that border is
\* inside the sector and roofed
FacesRoof(layer, x, y) ==
    /\ ~Roofed(layer, x, y)
    /\ RoofBorder(layer, x, y) # "none"
    /\ InGrid(AcrossBorder(layer, x, y)[1], AcrossBorder(layer, x, y)[2])
    /\ Roofed(layer, AcrossBorder(layer, x, y)[1], AcrossBorder(layer, x, y)[2])

SameColumn(p, q) == p[1] = q[1] /\ p[3] = q[3]

\* C20: for an unroofed tile with a top-border (or right-border) wall whose
\* north (or east) neighbour inside the sector is roofed, the roof pass
\* places an edge piece in this tile's own column and none in the roofed
\* neighbour's column.
C20_EdgeInOwnColumn ==
    \A layer \in Layers, x \in TileIdx, y \in TileIdx :
        PassedTile("roofs", x, y) /\ FacesRoof(layer, x, y) =>
            LET across == AcrossBorder(layer, x, y)
                edges == {v \in RoofVoxels(layer, x, y) : v[3] = "edge"}
            IN  /\ \E v \in edges : SameColumn(v[1], ColumnOf(x, y))
                /\ \A v \in edges :
                      ~SameColumn(v[1], ColumnOf(across[1], across[2]))

\* C20: for such a tile the roof pass places nothing when the north-east
\* neighbour is outside the sector; otherwise it places, at this tile's
\* elevation + ROOF_HEIGHT and in the neighbour's roof material, one edge
\* piece in the roofed neighbour's column (facing north one voxel north for
\* a top border, facing east one voxel east for a right border) and, when
\* the north-east neighbour is unroofed, an outer corner piece in the
\* north-east neighbour's column; nothing is placed in the tile's own column.
C20_EdgeInNeighbourColumn ==
    \A layer \in Layers, x \in TileIdx, y \in TileIdx :
        PassedTile("roofs", x, y) /\ FacesRoof(layer, x, y) =>
            LET top == RoofBorder(layer, x, y) = "top"
                across == AcrossBorder(layer, x, y)
                own == RoofPos(layer, x, y)
                edge == IF top
                        THEN <<add(own, 0, 0, -1),
                               "polished_granite_stairs[facing=north]", "edge">>
                        ELSE <<add(own, 1, 0, 0),
                               "polished_granite_stairs[facing=east]", "edge">>
                corner ==
                    IF top
                    THEN <<add(own, 1, 0, -1),
                           "polished_granite_stairs[facing=north,shape=outer_left]",
                           "corner">>
                    ELSE <<add(own, 1, 0, -1),
                           "polished_granite_stairs[facing=south,shape=outer_left]",
                           "corner">>
            IN  /\ SameColumn(edge[1], ColumnOf(across[1], across[2]))
                /\ RoofVoxels(layer, x, y)
                   = IF ~InGrid(x - 1, y - 1) THEN {}
                     ELSE IF Roofed(layer, x - 1, y - 1) THEN {edge}
                     ELSE {edge, corner}
                /\ \A v \in RoofVoxels(layer, x, y) :
                      ~SameColumn(v[1], ColumnOf(x, y))

C20_Witness ==
    /\ pc = "done"
    /\ \E layer \in Layers, x \in TileIdx, y \in TileIdx :
          /\ FacesRoof(layer, x, y)
          /\ RoofBorder(layer, x, y) = "top"
          /\ InGrid(x - 1, y - 1)
          /\ ~Roofed(layer, x - 1, y - 1)
          /\ Cardinality(RoofVoxels(layer, x, y)) = 2

(***************************************************************************)
(* Wall columns: processSector on a sector of plain tiles with one tile,   *)
(* on one layer, that carries one wall code on its top border, its right   *)
(* border, both or its diagonal.                                           *)
(***************************************************************************)
\* stone, doorways, a fence, a low wall, a window, a broken wall, a timber
\* wall with a window, an unknown code
ColumnCodes == {1, 2, 3, 5, 11, 14, 16, 42, 250}

ColumnBorders == {"top", "right", "both", "diagonal"}

ColumnSector(f, fl, code, border, overlay) ==
    [layer \in Layers |->
        [x \in TileIdx |-> [y \in TileIdx |->
            IF <<x, y>> = f /\ layer = fl
            THEN MkTile(0, 10, overlay, 0,
                        IF border \in {"right", "both"} THEN code ELSE 0,
                        IF border \in {"top", "both"} THEN code ELSE 0,
                        IF border = "diagonal" THEN code ELSE 0)
            ELSE IF <<x, y>> = f /\ layer = 0
            THEN MkTile(0, 10, overlay, 0, 0, 0, 0)
            ELSE PlainTile]]]

InitColumns ==
    \E f \in FocusTiles, fl \in Layers, code \in ColumnCodes,
       border \in ColumnBorders, overlay \in WallOverlays :
        ProcessInit(ColumnSector(f, fl, code, border, overlay),
                    MIN_SECTOR_X, MIN_SECTOR_Y, FALSE)

SpecColumns == InitColumns /\ [][NextProcess]_vars

\* the wall code of the tile on the layer, as buildWalls classifies it
WallCode(layer, x, y) == normalizeWallType(getWallType(sector[layer][x][y]))

HasWall(layer, x, y) == isWall(getWallType(sector[layer][x][y]))

\* the directive of the tile's wall, its height given
WallDirective(layer, x, y, random) ==
    getWallSettings(sector[layer][x][y], WallCode(layer, x, y),
                    WallFacing(sector[layer][x][y], Indoors(layer, x, y)), random)

\* the heights, relative to the tile elevation, of the calls in call order
RelativeHeights(out, layer, x, y) ==
    [k \in 1 .. Len(out) |-> out[k].pos[2] - levelY(mc[layer][x][y].elevation, 0)]

\* lo, lo + 1, .. hi
Span(lo, hi) == [k \in 1 .. (hi - lo + 1) |-> lo + k - 1]

\* C21: every wall column built for a tile covers exactly the relative
\* heights startY..height above the tile elevation, one voxel per height,
\* where height is the directive's height and startY is 1 when the
\* directive is flagged start-above-ground, otherwise -5 on layer 0 and 0
\* on the layers above.
C21_WallColumnSpan ==
    \A layer \in Layers, x \in TileIdx, y \in TileIdx :
        PassedTile("walls", x, y) /\ HasWall(layer, x, y) =>
            LET out == PlacedFor("buildWalls", layer, x, y)
            IN  \E random \in 0 .. (WALL_HEIGHT - 1) :
                    LET wallSettings == WallDirective(layer, x, y, random)
                        startY == IF wallSettings.ensureAboveGround THEN 1
                                  ELSE IF layer = 0 THEN -5 ELSE 0
                    IN  /\ Columns(out) # {}
                        /\ \A col \in Columns(out) :
                              RelativeHeights(InColumn(out, col), layer, x, y)
                              = Span(startY, wallSettings.height)

\* a stone wall on layer 0: one column, from 5 below the floor to the height
C21_Witness ==
    /\ pc = "done"
    /\ \E x \in TileIdx, y \in TileIdx :
          /\ HasWall(0, x, y)
          /\ WallCode(0, x, y) = 1
          /\ sector[0][x][y].rightBorderWall = 0
          /\ RelativeHeights(PlacedFor("buildWalls", 0, x, y), 0, x, y)
             = Span(-5, WALL_HEIGHT)

\* the calls of the column that placed a half of a door, as
\* <<relative height, block>>
DoorVoxels(out, layer, x, y) ==
    {<<out[k].pos[2] - levelY(mc[layer][x][y].elevation, 0), out[k].block>> :
        k \in {j \in 1 .. Len(out) : out[j].kind = "door"}}

\* C22: every wall column built with a door directive holds exactly two door
\* voxels, the lower half at relative height 1 and the upper half at
\* relative height 2, and every other voxel of its span 1..height is a wall
\* voxel that is not a door, on every layer and for every doorway code.
C22_DoorColumnShape ==
    \A layer \in Layers, x \in TileIdx, y \in TileIdx :
        PassedTile("walls", x, y) /\ HasWall(layer, x, y)
        /\ WallCode(layer, x, y) \in DoorwayTypes =>
            LET out == PlacedFor("buildWalls", layer, x, y)
                facing == WallFacing(sector[layer][x][y], Indoors(layer, x, y))
            IN  /\ \E col \in Columns(out) : HasDoor(InColumn(out, col))
                /\ \A col \in Columns(out) :
                      HasDoor(InColumn(out, col)) =>
                          LET column == InColumn(out, col)
                          IN  /\ DoorVoxels(column, layer, x, y)
                                 = { <<1, "oak_door[facing=" \o facing \o ",half=lower]">>,
                                     <<2, "oak_door[facing=" \o facing \o ",half=upper]">> }
                              /\ RelativeHeights(column, layer, x, y)
                                 = Span(1, WALL_HEIGHT)
                              /\ \A k \in 1 .. Len(column) :
                                    column[k].kind # "door" =>
                                        /\ column[k].block # NullBlock
                                        /\ column[k].block
                                           # "oak_door[facing=" \o facing \o ",half=lower]"
                                        /\ column[k].block
                                           # "oak_door[facing=" \o facing \o ",half=upper]"

(***************************************************************************)
(* getNeighbouringWallBlock on a layer of plain tiles with up to two of    *)
(* the 8 tiles around the tile carrying a wall code.                       *)
(***************************************************************************)
\* nothing, a stone wall, a doorway, a panelled wall, a panelled window, a
\* diagonal stone wall, an object
SearchCodes == {0, 1, 2, 15, 16, DIAGONAL_BASE + 1, OBJECT_BASE + 1}

SearchTile(code) ==
    IF code >= DIAGONAL_BASE THEN MkTile(0, 10, 0, 0, 0, 0, code)
    ELSE MkTile(0, 10, 0, 0, 0, code, 0)

SearchSector(f, layer, d1, c1, d2, c2) ==
    [l \in Layers |->
        [x \in TileIdx |-> [y \in TileIdx |->
            IF l # layer THEN PlainTile
            ELSE IF <<x, y>> = <<f[1] + NeighbourOffsets[d1][1],
                                 f[2] + NeighbourOffsets[d1][2]>>
            THEN SearchTile(c1)
            ELSE IF <<x, y>> = <<f[1] + NeighbourOffsets[d2][1],
                                 f[2] + NeighbourOffsets[d2][2]>>
            THEN SearchTile(c2)
            ELSE PlainTile]]]

InitSearch ==
    \E f \in FocusTiles, layer \in Layers,
       d1 \in 1 .. Len(NeighbourOffsets), d2 \in 1 .. Len(NeighbourOffsets),
       c1 \in SearchCodes, c2 \in SearchCodes :
        /\ d1 < d2
        /\ CallInit([sector |-> SearchSector(f, layer, d1, c1, d2, c2),
                     layer |-> layer, tileX |-> f[1], tileY |-> f[2]])

CallSearch ==
    Returned(getNeighbouringWallBlock(arg.sector, arg.layer, arg.tileX, arg.tileY))

SpecSearch == InitSearch /\ [][CallSearch]_vars

\* the k-th of the 8 surrounding tiles lies inside the sector, carries a
\* wall code and is not a doorway
Qualifies(k) ==
    LET nx == arg.tileX + NeighbourOffsets[k][1]
        ny == arg.tileY + NeighbourOffsets[k][2]
    IN  /\ InGrid(nx, ny)
        /\ isWall(getWallType(arg.sector[arg.layer][nx][ny]))
        /\ normalizeWallType(getWallType(arg.sector[arg.layer][nx][ny]))
           \notin DoorwayTypes

\* the wall material of the k-th surrounding tile
NeighbourMaterial(k) ==
    WallBlock(normalizeWallType(getWallType(
        arg.sector[arg.layer][arg.tileX + NeighbourOffsets[k][1]]
                             [arg.tileY + NeighbourOffsets[k][2]])))

\* C23: getNeighbouringWallBlock returns the wall material of the first of
\* the 8 surrounding tiles, in the order north, north-east, east,
\* south-east, south, south-west, west, north-west, that lies inside the
\* sector, carries a wall code and is not a doorway, and null when no
\* neighbour qualifies.
C23_FirstQualifyingNeighbour ==
    pc = "done" =>
        LET qualifying == {k \in 1 .. Len(NeighbourOffsets) : Qualifies(k)}
        IN  IF qualifying = {} THEN res = NullBlock
            ELSE res = NeighbourMaterial(
                           CHOOSE k \in qualifying : \A j \in qualifying : k <= j)

\* what the floor pass wrote in its call for the tile on the layer
FloorVoxels(layer, x, y) == Voxels(PlacedFor("buildFloors", layer, x, y))

\* the tile's overlay code has a directive that is not a void
SolidOverlay(layer, x, y) ==
    /\ sector[layer][x][y].groundOverlay # 0
    /\ ~getOverlaySettings(sector[layer][x][y].groundOverlay).isVoid

\* C24: on the layers above the ground the tile elevation is the layer-0
\* elevation of the same tile plus layer * WALL_HEIGHT, and the floor pass
\* places no bedrock, support or ground voxel there: its only placement is
\* the overlay voxel, when the overlay is permitted.
C24_UpperFloorsHollow ==
    \A layer \in 1 .. (NUM_LAYERS - 1), x \in TileIdx, y \in TileIdx :
        PassedTile("floors", x, y) =>
            /\ mc[layer][x][y].elevation
               = mc[0][x][y].elevation + layer * WALL_HEIGHT * ELEVATION_DIV
            /\ \A k \in 1 .. Len(FloorVoxels(layer, x, y)) :
                  FloorVoxels(layer, x, y)[k][3] = "overlay"
            /\ Len(FloorVoxels(layer, x, y))
               = IF SolidOverlay(layer, x, y) THEN 1 ELSE 0

\* a raised tile with a wood floor on layer 2 and all its layer-0 voxels
C24_Witness ==
    /\ pc = "done"
    /\ \E x \in TileIdx, y \in TileIdx :
          /\ sector[0][x][y].groundElevation = 40
          /\ sector[2][x][y].groundOverlay = 3
          /\ mc[2][x][y].elevation = (ELEVATION_BASE + 2 * WALL_HEIGHT) * ELEVATION_DIV + 40
          /\ Len(FloorVoxels(2, x, y)) = 1
          /\ Len(FloorVoxels(0, x, y)) >= 7

\* the overlay voxels among the calls of the floor pass for the tile
OverlayVoxels(layer, x, y) ==
    {FloorVoxels(layer, x, y)[k] :
        k \in {j \in 1 .. Len(FloorVoxels(layer, x, y)) :
                  FloorVoxels(layer, x, y)[j][3] = "overlay"}}

\* C25: an overlay voxel is placed for a tile iff the tile has a nonzero
\* overlay code and not (layer > 0 and the directive is void); it is placed
\* at the tile's elevation when replaceGround is true and one above
\* otherwise, the elevation being the one after overrideElevation: water
\* puts the layer-0 elevation at SEA_LEVEL - BEDROCK_LEVEL whatever the
\* groundElevation.
C25_OverlayVoxel ==
    \A layer \in Layers, x \in TileIdx, y \in TileIdx :
        PassedTile("floors", x, y) =>
            LET code == sector[layer][x][y].groundOverlay
                overlaySettings == getOverlaySettings(code)
                at == BEDROCK_LEVEL + mc[layer][x][y].elevation \div ELEVATION_DIV
                      + (IF overlaySettings.replaceGround THEN 0 ELSE 1)
            IN  /\ OverlayVoxels(layer, x, y)
                   = IF code # 0 /\ ~(layer > 0 /\ overlaySettings.isVoid)
                     THEN {<<withY(ColumnOf(x, y), at), overlaySettings.block, "overlay">>}
                     ELSE {}
                /\ layer = 0 /\ code = 2 =>
                      mc[0][x][y].elevation = (SEA_LEVEL - BEDROCK_LEVEL) * ELEVATION_DIV

\* water on a tile of groundElevation 255: the water voxel is one above sea
\* level minus bedrock level
C25_Witness ==
    /\ pc = "done"
    /\ \E x \in TileIdx, y \in TileIdx :
          /\ sector[0][x][y].groundOverlay = 2
          /\ sector[0][x][y].groundElevation = 255
          /\ OverlayVoxels(0, x, y)
             = {<<withY(ColumnOf(x, y), SEA_LEVEL + 1), "water", "overlay">>}

\* the assignments made so far to the fields of the tile's annotation
Writes(layer, x, y) == mc[layer][x][y].writes

\* the state part of C26 as the claim has it: each field of the annotation
\* is assigned at most once, and once the floor pass has made its call for
\* the tile, which reads the overlay directive and the elevation, both were
\* assigned
C26_StrictlyOnce ==
    \A layer \in Layers, x \in TileIdx, y \in TileIdx :
        /\ Writes(layer, x, y).overlaySettings <= 1
        /\ Writes(layer, x, y).elevation <= 1
        /\ Writes(layer, x, y).indoors <= 1
        /\ PassedTile("floors", x, y) =>
              /\ Writes(layer, x, y).overlaySettings = 1
              /\ Writes(layer, x, y).elevation = 1

\* C26: the per-tile annotation is write-once and never read before it is
\* written: each field of a (layer, tile) is assigned at most once, every
\* read of its elevation, overlay directive or indoor flag comes after the
\* field was written, and the decoded source fields are never modified.
C26_WriteOnce == [](C26_StrictlyOnce) /\ [][sector' = sector]_vars

\* the assignments the passes have made to the tile's annotation: the floor
\* pass assigns the overlay directive once when the tile has an overlay code
\* and never otherwise, and the elevation once, or twice on layer 0 under an
\* overlay that overrides the elevation; the wall pass assigns the indoor
\* flag once; the wall and roof calls for a tile find its annotation made
C26_Annotated ==
    \A layer \in Layers, x \in TileIdx, y \in TileIdx :
        /\ Writes(layer, x, y).overlaySettings
           = IF PassedTile("floors", x, y)
                /\ sector[layer][x][y].groundOverlay # 0 THEN 1 ELSE 0
        /\ Writes(layer, x, y).elevation
           = IF ~PassedTile("floors", x, y) THEN 0
             ELSE IF layer = 0 /\ sector[0][x][y].groundOverlay = 2 THEN 2
             ELSE 1
        /\ Writes(layer, x, y).indoors
           = IF PassedTile("walls", x, y) THEN 1 ELSE 0
        /\ pc \in {"walls", "roofs", "return", "done"} =>
              mc[layer][x][y].set /\ Writes(layer, x, y).elevation >= 1

\* C26: the overlay directive is assigned at most once (never for a tile
\* without overlay code, whose directive is read as absent), the elevation
\* once, or twice in one iteration of the floor pass on layer 0 under an
\* overlay that overrides the elevation, the indoor flag once by the wall
\* pass; every wall and roof call comes after the floor pass has annotated
\* every tile; the decoded source fields are never modified.
C26_WrittenBeforeRead == [](C26_Annotated) /\ [][sector' = sector]_vars

\* a water tile on layer 0 after the wall pass: its elevation was assigned
\* twice, its indoor flag once
C26_Witness ==
    /\ pc = "done"
    /\ \E x \in TileIdx, y \in TileIdx :
          /\ sector[0][x][y].groundOverlay = 2
          /\ Writes(0, x, y) = [overlaySettings |-> 1, elevation |-> 2, indoors |-> 1]
          /\ Writes(1, x, y).elevation = 1

\* the tile's classified code is an object reference
HasObject(layer, x, y) == getWallType(sector[layer][x][y]) >= OBJECT_BASE

\* what the wall pass wrote in its call for the tile on the layer
WallPassVoxels(layer, x, y) == Voxels(PlacedFor("buildWalls", layer, x, y))

\* the floor elevation of the tile on the layer, as a voxel of its column
FloorPos(layer, x, y) ==
    withY(ColumnOf(x, y), levelY(mc[layer][x][y].elevation, 0))

\* C27: when a tile's classified code is an object reference, the object's
\* first voxel is emitted in the tile's own column at the floor elevation
\* of that tile and layer, and a second voxel directly above the first.
C27_ObjectAtFloor ==
    \A layer \in Layers, x \in TileIdx, y \in TileIdx :
        PassedTile("walls", x, y) /\ HasObject(layer, x, y) =>
            LET out == WallPassVoxels(layer, x, y)
            IN  /\ Len(out) >= 1
                /\ \A k \in 1 .. Len(out) :
                      out[k][1] = add(FloorPos(layer, x, y), 0, k - 1, 0)

\* C27: when a tile's classified code is an object reference, the wall pass
\* emits for it only the object's voxels, in the tile's own column: the
\* first one voxel above the floor elevation of that tile and layer, and
\* the second of a two-voxel object (lampstand, id 26) directly above the
\* first.
C27_ObjectOnFloor ==
    \A layer \in Layers, x \in TileIdx, y \in TileIdx :
        PassedTile("walls", x, y) /\ HasObject(layer, x, y) =>
            LET out == WallPassVoxels(layer, x, y)
                objectId == getWallType(sector[layer][x][y]) - OBJECT_BASE
            IN  /\ Len(out) = IF objectId = 26 THEN 2 ELSE 1
                /\ \A k \in 1 .. Len(out) :
                      /\ out[k][3] = "object"
                      /\ out[k][1] = add(FloorPos(layer, x, y), 0, k, 0)

\* a lampstand on an upper layer: rod and candle above the floor
C27_Witness ==
    /\ pc = "done"
    /\ \E x \in TileIdx, y \in TileIdx :
          /\ getWallType(sector[1][x][y]) = OBJECT_BASE + 26
          /\ WallPassVoxels(1, x, y)
             = << <<add(FloorPos(1, x, y), 0, 1, 0), "end_rod[facing=down]", "object">>,
                  <<add(FloorPos(1, x, y), 0, 2, 0), "white_candle[lit=true]", "object">> >>

\* the column lies in the SECTOR_SIZE x SECTOR_SIZE footprint of the sector
\* being processed
InFootprint(pos) ==
    /\ pos[1] >= sectorMinBlockPos[1]
    /\ pos[1] < sectorMinBlockPos[1] + SECTOR_SIZE
    /\ pos[3] >= sectorMinBlockPos[3]
    /\ pos[3] < sectorMinBlockPos[3] + SECTOR_SIZE

\* C28: every voxel placed while a sector is processed, in the clean, floor,
\* wall or roof step, has its X and Z inside that sector's own footprint.
C28_PlacementsInFootprint ==
    \A k \in 1 .. Len(placed) : InFootprint(placed[k].pos)

\* C29: for every in-range sector (sx, sy) and every tile (tx, ty) of it,
\* the sector containing the tile's block position is (sx, sy), the tile's
\* world X is origin.X + (SECTOR_SIZE - tx - 1) and its world Z is
\* origin.Z + ty; the sector and the tile are recovered from the world
\* column alone, so distinct (sector, tile) pairs have distinct columns.
C29_TileColumns ==
    pc = "done" =>
        LET origin == getMinBlockPosForSector(arg.sectorX, arg.sectorY)
            \* the sector and the tile, from the column of res.tile alone
            back == getContainingSectorCoords(res.tile)
            backOrigin == getMinBlockPosForSector(back[1], back[3])
        IN  /\ res.sectorOfTile = <<arg.sectorX, 0, arg.sectorY>>
            /\ res.tile[1] = origin[1] + (SECTOR_SIZE - arg.tileX - 1)
            /\ res.tile[3] = origin[3] + arg.tileY
            /\ <<back[1], back[3]>> = <<arg.sectorX, arg.sectorY>>
            /\ SECTOR_SIZE - 1 - (res.tile[1] - backOrigin[1]) = arg.tileX
            /\ res.tile[3] - backOrigin[3] = arg.tileY

\* the last tile of the first row of tiles of sector (48, 37), the sector of
\* the largest world X
C29_Witness ==
    /\ pc = "done"
    /\ arg = [sectorX |-> MIN_SECTOR_X, sectorY |-> MIN_SECTOR_Y,
              tileX |-> 0, tileY |-> SECTOR_SIZE - 1]
    /\ res.tile = <<NUM_SECTORS_X * SECTOR_SIZE + SECTOR_SIZE - 1, BEDROCK_LEVEL,
                    SECTOR_SIZE - 1>>
    /\ res.sectorOfTile = <<MIN_SECTOR_X, 0, MIN_SECTOR_Y>>

\* the calls, by their index in call order, that wrote the voxel
WritersOf(pos) == {k \in 1 .. Len(placed) : placed[k].pos = pos}

\* the call that wrote the voxel last: what the world holds there
LastWriter(pos) ==
    placed[CHOOSE k \in WritersOf(pos) : \A j \in WritersOf(pos) : j <= k]

\* C30: once processSector has finished, the voxel in every roofed tile's
\* own column at elevation + ROOF_HEIGHT, on each layer on which the tile
\* has a roof texture, holds what a placeRoof call wrote, never what the
\* floor, overlay, wall or object calls of the earlier passes wrote.
C30_RoofOnTop ==
    pc \in {"return", "done"} =>
        \A layer \in Layers, x \in TileIdx, y \in TileIdx :
            Roofed(layer, x, y) =>
                /\ WritersOf(RoofPos(layer, x, y)) # {}
                /\ LastWriter(RoofPos(layer, x, y)).by = "buildRoofs"
                /\ LastWriter(RoofPos(layer, x, y)).kind \in {"plain", "edge", "corner"}

\* a roofed tile whose roof voxel the wall pass had written before
C30_Witness ==
    /\ pc = "done"
    /\ \E layer \in Layers, x \in TileIdx, y \in TileIdx :
          /\ Roofed(layer, x, y)
          /\ \E k \in WritersOf(RoofPos(layer, x, y)) : placed[k].by = "buildWalls"
          /\ LastWriter(RoofPos(layer, x, y)).by = "buildRoofs"

====
